---------------------------- MODULE Spec2Model ----------------------------
(***************************************************************************)
(* A model of the 00bx Kiro Gateway stream core (streaming.ts):            *)
(*   extractJsonPayloads  - the AWS binary event stream frame decoder      *)
(*   detectEventType      - the structural event classifier                *)
(*   AwsEventStreamParser - feed / processEvent / finalizeToolCall /       *)
(*                          getToolCalls / reset                           *)
(*   deduplicateToolCalls - the two-pass tool call deduplication           *)
(*                                                                         *)
(* Bytes are integers 0..255, texts are sequences of code points, and JSON *)
(* values are tagged records, so that JSON.parse, JSON.stringify, String() *)
(* and the typed-array slice are computed as the JavaScript run time       *)
(* computes them.                                                          *)
(***************************************************************************)
EXTENDS Integers, Sequences, FiniteSets, TLC

(***************************************************************************)
(* Texts.  A literal is written as a TLA+ string and turned into its code  *)
(* points by Enc.  Alphabet lists the printable ASCII characters from      *)
(* code 32 on (code 96 is not used and holds a second underscore).         *)
(***************************************************************************)
Alphabet == " !\"#$%&'()*+,-./0123456789:;<=>?@ABCDEFGHIJKLMNOPQRSTUVWXYZ[\\]^__abcdefghijklmnopqrstuvwxyz{|}~"

OrdTable == [i \in 1..Len(Alphabet) |-> SubSeq(Alphabet, i, i)]

Ord == [c \in {OrdTable[i] : i \in 1..Len(Alphabet)} |->
         31 + (CHOOSE i \in 1..Len(Alphabet) :
                 OrdTable[i] = c /\ \A j \in 1..(i - 1) : OrdTable[j] # c)]

Enc(s) == [i \in 1..Len(s) |-> Ord[SubSeq(s, i, i)]]

Min(a, b) == IF a < b THEN a ELSE b

Max(a, b) == IF a > b THEN a ELSE b

RECURSIVE Flatten(_)
Flatten(seqs) == IF seqs = <<>> THEN <<>> ELSE Head(seqs) \o Flatten(Tail(seqs))

(***************************************************************************)
(* Uint8Array.prototype.slice(start, end): a negative index counts from    *)
(* the end of the array, and both indices are clamped to [0, length].      *)
(* Indices are zero based, as in the source.                               *)
(***************************************************************************)
RelIndex(i, len) == IF i < 0 THEN Max(len + i, 0) ELSE Min(i, len)

Slice(buf, start, end) ==
  LET s == RelIndex(start, Len(buf))
      e == RelIndex(end, Len(buf))
  IN  IF s < e THEN SubSeq(buf, s + 1, e) ELSE <<>>

(***************************************************************************)
(* (b0 << 24) | (b1 << 16) | (b2 << 8) | b3 : the bitwise operators of     *)
(* JavaScript work on signed 32-bit integers, so a first byte >= 0x80      *)
(* makes the result negative.                                              *)
(***************************************************************************)
ReadInt32BE(buf, offset) ==
  LET b0 == buf[offset + 1]
      hi == IF b0 >= 128 THEN b0 - 256 ELSE b0
  IN  hi * 16777216 + buf[offset + 2] * 65536 + buf[offset + 3] * 256 + buf[offset + 4]

(***************************************************************************)
(* new TextDecoder("utf-8", {fatal: false}).decode(bytes): the WHATWG      *)
(* UTF-8 decoder.  An ill-formed sequence yields U+FFFD for its maximal    *)
(* subpart, and a leading byte order mark is dropped.                      *)
(***************************************************************************)
Replacement == 65533

IsCont(buf, i, lo, hi) == i <= Len(buf) /\ buf[i] >= lo /\ buf[i] <= hi

RECURSIVE Utf8From(_, _)
Utf8From(buf, i) ==
  IF i > Len(buf) THEN <<>>
  ELSE LET b == buf[i] IN
    IF b < 128 THEN <<b>> \o Utf8From(buf, i + 1)
    ELSE IF b >= 194 /\ b <= 223 THEN
      IF IsCont(buf, i + 1, 128, 191)
      THEN <<(b - 192) * 64 + (buf[i + 1] - 128)>> \o Utf8From(buf, i + 2)
      ELSE <<Replacement>> \o Utf8From(buf, i + 1)
    ELSE IF b >= 224 /\ b <= 239 THEN
      LET lo == IF b = 224 THEN 160 ELSE 128
          hi == IF b = 237 THEN 159 ELSE 191
      IN  IF ~IsCont(buf, i + 1, lo, hi)
          THEN <<Replacement>> \o Utf8From(buf, i + 1)
          ELSE IF ~IsCont(buf, i + 2, 128, 191)
          THEN <<Replacement>> \o Utf8From(buf, i + 2)
          ELSE <<(b - 224) * 4096 + (buf[i + 1] - 128) * 64 + (buf[i + 2] - 128)>>
               \o Utf8From(buf, i + 3)
    ELSE IF b >= 240 /\ b <= 244 THEN
      LET lo == IF b = 240 THEN 144 ELSE 128
          hi == IF b = 244 THEN 143 ELSE 191
      IN  IF ~IsCont(buf, i + 1, lo, hi)
          THEN <<Replacement>> \o Utf8From(buf, i + 1)
          ELSE IF ~IsCont(buf, i + 2, 128, 191)
          THEN <<Replacement>> \o Utf8From(buf, i + 2)
          ELSE IF ~IsCont(buf, i + 3, 128, 191)
          THEN <<Replacement>> \o Utf8From(buf, i + 3)
          ELSE <<(b - 240) * 262144 + (buf[i + 1] - 128) * 4096
                 + (buf[i + 2] - 128) * 64 + (buf[i + 3] - 128)>>
               \o Utf8From(buf, i + 4)
    ELSE <<Replacement>> \o Utf8From(buf, i + 1)

Utf8Decode(buf) ==
  LET s == Utf8From(buf, 1)
  IN  IF s # <<>> /\ Head(s) = 65279 THEN Tail(s) ELSE s

(***************************************************************************)
(* String.prototype.trim() removes white space and line terminators; the   *)
(* source tests `payloadStr.trim()` and `args.trim()` for truthiness.      *)
(***************************************************************************)
JsWhiteSpace == {9, 10, 11, 12, 13, 32, 160, 5760, 8232, 8233, 8239, 8287, 12288, 65279}
                  \cup (8192..8202)

IsBlank(s) == \A i \in 1..Len(s) : s[i] \in JsWhiteSpace

(***************************************************************************)
(* extractJsonPayloads(rawBuffer): the frame decoder.  Scan is the while   *)
(* loop; it returns the payloads and the final scan offset.                *)
(***************************************************************************)
MinTotalLen == 16

MaxTotalLen == 1000000

PreludeLen == 12

\* mutant: the headers are taken for payload
PayloadStartIgnoringHeaders(offset, headersLen) == offset + PreludeLen

\* payload starts after: prelude (12 bytes) + headers
PayloadStart(offset, headersLen) == offset + PreludeLen + headersLen

\* payload ends before: trailing CRC (4 bytes)
PayloadEnd(offset, totalLen) == offset + totalLen - 4

\* mutant: the whole length field is skipped
ResyncPastLengthField(offset) == offset + 4

\* mutant: the whole prelude is skipped
ResyncPastPrelude(offset) == offset + PreludeLen

\* invalid frame: skip one byte and try again
Resync(offset) == offset + 1

RECURSIVE Scan(_, _, _)
Scan(rawBuffer, offset, payloads) ==
  IF ~(offset + PreludeLen <= Len(rawBuffer))
  THEN [payloads |-> payloads, offset |-> offset]
  ELSE
    LET totalLen == ReadInt32BE(rawBuffer, offset) IN
    IF totalLen < MinTotalLen \/ totalLen > MaxTotalLen
    THEN Scan(rawBuffer, Resync(offset), payloads)
    ELSE IF offset + totalLen > Len(rawBuffer)
    THEN [payloads |-> payloads, offset |-> offset]
    ELSE
      LET headersLen   == ReadInt32BE(rawBuffer, offset + 4)
          payloadStart == PayloadStart(offset, headersLen)
          payloadEnd   == PayloadEnd(offset, totalLen)
          payloadStr   == Utf8Decode(Slice(rawBuffer, payloadStart, payloadEnd))
      IN  Scan(rawBuffer, offset + totalLen,
               IF payloadStart < payloadEnd /\ ~IsBlank(payloadStr)
               THEN Append(payloads, payloadStr)
               ELSE payloads)

\* mutant: the bytes of the frames that were decoded are not dropped
extractJsonPayloadsKeepingAll(rawBuffer) ==
  [payloads |-> Scan(rawBuffer, 0, <<>>).payloads, remaining |-> rawBuffer]

extractJsonPayloads(rawBuffer) ==
  LET r == Scan(rawBuffer, 0, <<>>)
  IN  [payloads  |-> r.payloads,
       remaining |-> IF r.offset < Len(rawBuffer)
                     THEN Slice(rawBuffer, r.offset, Len(rawBuffer))
                     ELSE <<>>]

(***************************************************************************)
(* JSON values.  undefined is the value of a property an object lacks.     *)
(***************************************************************************)
JNull == [t |-> "null"]

Undefined == [t |-> "undefined"]

JBool(b) == [t |-> "bool", b |-> b]

JNum(n) == [t |-> "num", n |-> n]

JStr(s) == [t |-> "str", s |-> s]

JArr(items) == [t |-> "arr", items |-> items]

JObj(keys, vals) == [t |-> "obj", keys |-> keys, vals |-> vals]

IsObjectType(v) == v.t \in {"obj", "arr"}

(***************************************************************************)
(* The own properties of a JavaScript object keep insertion order, except  *)
(* that array-index keys ("0", "1", ...) come first in ascending order; a  *)
(* repeated key keeps its place and takes the later value.                 *)
(***************************************************************************)
IsDigit(c) == c >= 48 /\ c <= 57

RECURSIVE DigitsValue(_, _)
DigitsValue(s, acc) ==
  IF s = <<>> THEN acc ELSE DigitsValue(Tail(s), acc * 10 + (Head(s) - 48))

IsIndexKey(k) ==
  /\ Len(k) >= 1 /\ Len(k) <= 9
  /\ \A i \in 1..Len(k) : IsDigit(k[i])
  /\ (Len(k) > 1 => k[1] # 48)

InsertAt(seq, pos, x) == SubSeq(seq, 1, pos - 1) \o <<x>> \o SubSeq(seq, pos, Len(seq))

ObjSet(o, k, v) ==
  IF \E i \in 1..Len(o.keys) : o.keys[i] = k
  THEN LET i == CHOOSE j \in 1..Len(o.keys) : o.keys[j] = k
       IN  JObj(o.keys, [o.vals EXCEPT ![i] = v])
  ELSE IF IsIndexKey(k)
  THEN LET after == {j \in 1..Len(o.keys) :
                       ~IsIndexKey(o.keys[j])
                       \/ DigitsValue(o.keys[j], 0) > DigitsValue(k, 0)}
           pos == IF after = {} THEN Len(o.keys) + 1
                  ELSE CHOOSE j \in after : \A m \in after : j <= m
       IN  JObj(InsertAt(o.keys, pos, k), InsertAt(o.vals, pos, v))
  ELSE JObj(Append(o.keys, k), Append(o.vals, v))

\* `key in data`, for an object or an array: an array has its indices and
\* "length", and none of the keys the source asks for
HasKey(data, key) ==
  data.t = "obj" /\ \E i \in 1..Len(data.keys) : data.keys[i] = key

\* `data.key`
Get(data, key) ==
  IF HasKey(data, key)
  THEN data.vals[CHOOSE i \in 1..Len(data.keys) : data.keys[i] = key]
  ELSE Undefined

\* ToBoolean: false, 0, "", null and undefined are falsy
Truthy(v) ==
  CASE v.t = "null"      -> FALSE
    [] v.t = "undefined" -> FALSE
    [] v.t = "bool"      -> v.b
    [] v.t = "num"       -> v.n # 0
    [] v.t = "str"       -> v.s # <<>>
    [] OTHER             -> TRUE

\* a === b: objects and arrays are equal only to themselves, and two parses
\* never yield the same object
StrictEq(a, b) == ~IsObjectType(a) /\ a = b

(***************************************************************************)
(* JSON.parse(text) for the JSON of this model: objects, arrays, strings   *)
(* with the escapes \" \\ \/, integers, true, false and null, with JSON    *)
(* white space between tokens.  A text outside the grammar is a            *)
(* SyntaxError (ok = FALSE).  Fractions, exponents and the other string    *)
(* escapes are not modelled; no text of the model contains them.           *)
(***************************************************************************)
JsonWhiteSpace == {9, 10, 13, 32}

TextTrue == Enc("true")

TextFalse == Enc("false")

TextNull == Enc("null")

TextUndefined == Enc("undefined")

TextObject == Enc("[object Object]")

EmptyObjectText == Enc("{}")

ParseFail == [ok |-> FALSE, v |-> JNull, i |-> 0]

ParseOk(v, i) == [ok |-> TRUE, v |-> v, i |-> i]

RECURSIVE SkipWs(_, _)
SkipWs(s, i) ==
  IF i <= Len(s) /\ s[i] \in JsonWhiteSpace THEN SkipWs(s, i + 1) ELSE i

HasLiteral(s, i, lit) ==
  /\ i + Len(lit) - 1 <= Len(s)
  /\ SubSeq(s, i, i + Len(lit) - 1) = lit

\* the characters of a string literal whose opening quote is before i
RECURSIVE ParseChars(_, _, _)
ParseChars(s, i, acc) ==
  IF i > Len(s) THEN ParseFail
  ELSE IF s[i] = 34 THEN ParseOk(JStr(acc), i + 1)
  ELSE IF s[i] = 92
  THEN IF i + 1 <= Len(s) /\ s[i + 1] \in {34, 92, 47}
       THEN ParseChars(s, i + 2, Append(acc, s[i + 1]))
       ELSE ParseFail
  ELSE IF s[i] < 32 THEN ParseFail
  ELSE ParseChars(s, i + 1, Append(acc, s[i]))

RECURSIVE DigitsEnd(_, _)
DigitsEnd(s, i) == IF i <= Len(s) /\ IsDigit(s[i]) THEN DigitsEnd(s, i + 1) ELSE i

ParseNumber(s, i) ==
  LET neg == s[i] = 45
      d   == IF neg THEN i + 1 ELSE i
      e   == DigitsEnd(s, d)
  IN  IF e = d \/ (s[d] = 48 /\ e > d + 1) THEN ParseFail
      ELSE LET n == DigitsValue(SubSeq(s, d, e - 1), 0)
           IN  ParseOk(JNum(IF neg THEN 0 - n ELSE n), e)

RECURSIVE ParseValue(_, _)
RECURSIVE ParseMembers(_, _, _)
RECURSIVE ParseElements(_, _, _)

ParseValue(s, i0) ==
  LET i == SkipWs(s, i0) IN
  IF i > Len(s) THEN ParseFail
  ELSE IF s[i] = 123
  THEN LET j == SkipWs(s, i + 1)
       IN  IF j <= Len(s) /\ s[j] = 125 THEN ParseOk(JObj(<<>>, <<>>), j + 1)
           ELSE ParseMembers(s, j, JObj(<<>>, <<>>))
  ELSE IF s[i] = 91
  THEN LET j == SkipWs(s, i + 1)
       IN  IF j <= Len(s) /\ s[j] = 93 THEN ParseOk(JArr(<<>>), j + 1)
           ELSE ParseElements(s, j, <<>>)
  ELSE IF s[i] = 34 THEN ParseChars(s, i + 1, <<>>)
  ELSE IF HasLiteral(s, i, TextTrue) THEN ParseOk(JBool(TRUE), i + 4)
  ELSE IF HasLiteral(s, i, TextFalse) THEN ParseOk(JBool(FALSE), i + 5)
  ELSE IF HasLiteral(s, i, TextNull) THEN ParseOk(JNull, i + 4)
  ELSE IF s[i] = 45 \/ IsDigit(s[i]) THEN ParseNumber(s, i)
  ELSE ParseFail

\* "key" : value ( , "key" : value )* }
ParseMembers(s, i0, obj) ==
  LET i == SkipWs(s, i0) IN
  IF i > Len(s) \/ s[i] # 34 THEN ParseFail
  ELSE LET k == ParseChars(s, i + 1, <<>>) IN
    IF ~k.ok THEN ParseFail
    ELSE LET c == SkipWs(s, k.i) IN
      IF c > Len(s) \/ s[c] # 58 THEN ParseFail
      ELSE LET v == ParseValue(s, c + 1) IN
        IF ~v.ok THEN ParseFail
        ELSE LET e    == SkipWs(s, v.i)
                 next == ObjSet(obj, k.v.s, v.v)
             IN  IF e > Len(s) THEN ParseFail
                 ELSE IF s[e] = 125 THEN ParseOk(next, e + 1)
                 ELSE IF s[e] = 44 THEN ParseMembers(s, e + 1, next)
                 ELSE ParseFail

\* value ( , value )* ]
ParseElements(s, i0, items) ==
  LET v == ParseValue(s, i0) IN
  IF ~v.ok THEN ParseFail
  ELSE LET e == SkipWs(s, v.i) IN
    IF e > Len(s) THEN ParseFail
    ELSE IF s[e] = 93 THEN ParseOk(JArr(Append(items, v.v)), e + 1)
    ELSE IF s[e] = 44 THEN ParseElements(s, e + 1, Append(items, v.v))
    ELSE ParseFail

JsonParse(text) ==
  LET r == ParseValue(text, 1)
  IN  IF r.ok /\ SkipWs(text, r.i) > Len(text) THEN r ELSE ParseFail

(***************************************************************************)
(* JSON.stringify(value) and String(value).                                *)
(***************************************************************************)
RECURSIVE NatDigits(_)
NatDigits(n) == IF n < 10 THEN <<48 + n>> ELSE NatDigits(n \div 10) \o <<48 + (n % 10)>>

NumberToString(n) == IF n < 0 THEN <<45>> \o NatDigits(0 - n) ELSE NatDigits(n)

RECURSIVE QuoteChars(_)
QuoteChars(s) ==
  IF s = <<>> THEN <<>>
  ELSE (IF Head(s) \in {34, 92} THEN <<92, Head(s)>> ELSE <<Head(s)>>)
       \o QuoteChars(Tail(s))

Quote(s) == <<34>> \o QuoteChars(s) \o <<34>>

RECURSIVE JsonStringify(_)
RECURSIVE StringifyMembers(_, _)
RECURSIVE StringifyElements(_, _)

JsonStringify(v) ==
  CASE v.t = "null" -> TextNull
    [] v.t = "bool" -> IF v.b THEN TextTrue ELSE TextFalse
    [] v.t = "num"  -> NumberToString(v.n)
    [] v.t = "str"  -> Quote(v.s)
    [] v.t = "arr"  -> <<91>> \o StringifyElements(v.items, 1) \o <<93>>
    [] v.t = "obj"  -> <<123>> \o StringifyMembers(v, 1) \o <<125>>

StringifyMembers(o, i) ==
  IF i > Len(o.keys) THEN <<>>
  ELSE (IF i > 1 THEN <<44>> ELSE <<>>)
       \o Quote(o.keys[i]) \o <<58>> \o JsonStringify(o.vals[i])
       \o StringifyMembers(o, i + 1)

StringifyElements(items, i) ==
  IF i > Len(items) THEN <<>>
  ELSE (IF i > 1 THEN <<44>> ELSE <<>>)
       \o JsonStringify(items[i]) \o StringifyElements(items, i + 1)

\* String(v) and `${v}`: an array joins its elements with commas (null and
\* undefined elements as the empty text), an object is "[object Object]"
RECURSIVE ToStr(_)
RECURSIVE JoinElements(_, _)

ToStr(v) ==
  CASE v.t = "null"      -> TextNull
    [] v.t = "undefined" -> TextUndefined
    [] v.t = "bool"      -> IF v.b THEN TextTrue ELSE TextFalse
    [] v.t = "num"       -> NumberToString(v.n)
    [] v.t = "str"       -> v.s
    [] v.t = "arr"       -> JoinElements(v.items, 1)
    [] v.t = "obj"       -> TextObject

JoinElements(items, i) ==
  IF i > Len(items) THEN <<>>
  ELSE (IF i > 1 THEN <<44>> ELSE <<>>)
       \o (IF items[i].t \in {"null", "undefined"} THEN <<>> ELSE ToStr(items[i]))
       \o JoinElements(items, i + 1)

(***************************************************************************)
(* The state of one AwsEventStreamParser, its transport and its caller.    *)
(***************************************************************************)
VARIABLES
  rawBuffer,        \* this.rawBuffer: bytes fed and not yet decoded
  lastContent,      \* this.lastContent: JNull, or the last content emitted
  currentToolCall,  \* this.currentToolCall: JNull, or [id, name, arguments]
  toolCalls,        \* this.toolCalls: the finalized records
  receivedUsage,    \* completion state: a usage payload has been processed
  idCount,          \* number of generateToolCallId() calls made so far
  idTape,           \* the ids generateToolCallId() returns, call by call
  body,             \* the segments the backend wrote, in order
  wire,             \* bytes of the response body not yet read
  cuts,             \* stream offsets at which the transport may end a chunk
  sent,             \* number of bytes read from the response body so far
  fed,              \* history: bytes fed since construction or reset
  emitted,          \* history: events returned since construction or reset
  steps,            \* history: one entry per payload the decoder extracted
  ret,              \* the last call and what it returned
  raised,           \* an exception reached the caller
  queried,          \* getToolCalls() was called since construction or reset
  resets            \* number of reset() calls

(***************************************************************************)
(* The state of the KiroAuthManager singleton, of Kiro's local database,   *)
(* of the clock, and of the makeKiroRequest calls that share the manager.  *)
(***************************************************************************)
VARIABLES
  refreshToken,     \* this.refreshToken: NoToken, or the refresh token held
  accessToken,      \* this.accessToken: NoToken, or the cached access token
  expiresAt,        \* this.expiresAt: NoTime, or a time in ms
  refreshPromise,   \* this.refreshPromise: NoPromise, or the pending refresh
  kiroDb,           \* the refresh token stored in Kiro's local database
  now,              \* Date.now(), in ms
  refreshes,        \* history: every refreshTokenRequest() call, in order
  requests,         \* the makeKiroRequest calls: position, locals, history
  statuses,         \* the statuses the Kiro API answers with
  answers,          \* the answers the auth endpoint gives
  logins            \* number of account changes made in Kiro

(***************************************************************************)
(* The state of one doGenerate or doStream call once makeKiroRequest has   *)
(* returned: the loop that consumes the response body, and its output.     *)
(***************************************************************************)
VARIABLES
  mode,             \* "generate" or "stream"
  position,         \* "reading" in the loop, then "done" or "rejected"
  reader,           \* the reader of the response body
  idleTimer,        \* idleTimer: "armed", "cleared" or "fired"
  keepsOpen,        \* the backend holds the connection open after its data
  textStartEmitted, \* doStream: text-start has been written
  textParts,        \* doGenerate: the content collected
  parts,            \* doStream: the parts written to the output stream
  closed,           \* doStream: writer.close() has been called
  generated,        \* doGenerate: NoResult, or what it returned
  ops               \* history: the calls made on the parser, in order

parserVars == <<rawBuffer, lastContent, currentToolCall, toolCalls,
                receivedUsage, idCount, idTape, body, wire, cuts, sent, fed,
                emitted, steps, ret, raised, queried, resets>>

authVars == <<refreshToken, accessToken, expiresAt, refreshPromise, kiroDb,
              now, refreshes, requests, statuses, answers, logins>>

streamVars == <<mode, position, reader, idleTimer, keepsOpen, textStartEmitted,
                textParts, parts, closed, generated, ops>>

\* buildKiroPayload, called first by doGenerate and doStream
VARIABLES
  options,          \* the call options: the prompt (no tools are offered)
  kiroPayload       \* NotBuilt, or what buildKiroPayload(options) gave

converterVars == <<options, kiroPayload>>

vars == <<parserVars, authVars, streamVars, converterVars>>

NotBuilt == [state |-> "none"]

\* no payload is being built
NoConversion ==
  /\ options = [prompt |-> <<>>]
  /\ kiroPayload = NotBuilt

KeyContent == Enc("content")

KeyName == Enc("name")

KeyInput == Enc("input")

KeyStop == Enc("stop")

KeyFollowupPrompt == Enc("followupPrompt")

KeyUsage == Enc("usage")

KeyContextUsage == Enc("contextUsagePercentage")

KeyToolUseId == Enc("toolUseId")

KeyToString == Enc("toString")

NoEvent == [type |-> "none"]

Event(type, data) == [type |-> type, data |-> data]

\* the parser as one value: the fields of the object and the position on
\* the id tape
Parser ==
  [rawBuffer |-> rawBuffer, lastContent |-> lastContent,
   currentToolCall |-> currentToolCall, toolCalls |-> toolCalls,
   receivedUsage |-> receivedUsage, idCount |-> idCount]

NewParser(count) ==
  [rawBuffer |-> <<>>, lastContent |-> JNull, currentToolCall |-> JNull,
   toolCalls |-> <<>>, receivedUsage |-> FALSE, idCount |-> count]

\* what a payload dispatch can read and change
View(p) ==
  [lastContent |-> p.lastContent, currentToolCall |-> p.currentToolCall,
   toolCalls |-> p.toolCalls, receivedUsage |-> p.receivedUsage]

(***************************************************************************)
(* generateToolCallId(): "call_" and 8 random hex digits.  The random      *)
(* draws are the entries of idTape, chosen once and used in turn.          *)
(***************************************************************************)
generateToolCallId(count) == JStr(idTape[(count % Len(idTape)) + 1])

(***************************************************************************)
(* detectEventType(data): the first matching rule wins.  "null" is the     *)
(* null result.  On a value that is not an object the `in` operator        *)
(* throws a TypeError.                                                     *)
(***************************************************************************)
InThrows(data) == ~IsObjectType(data)

\* mutant: the name rule comes before the content rule
detectEventTypeNameFirst(data) ==
  IF HasKey(data, KeyName) THEN "tool_start"
  ELSE IF HasKey(data, KeyContent) THEN "content"
  ELSE IF HasKey(data, KeyInput) /\ ~HasKey(data, KeyName) THEN "tool_input"
  ELSE IF HasKey(data, KeyStop) /\ ~HasKey(data, KeyName) THEN "tool_stop"
  ELSE IF HasKey(data, KeyFollowupPrompt) THEN "followup"
  ELSE IF HasKey(data, KeyUsage) THEN "usage"
  ELSE IF HasKey(data, KeyContextUsage) THEN "context_usage"
  ELSE "null"

\* mutant: the usage rule is missing
detectEventTypeWithoutUsage(data) ==
  IF HasKey(data, KeyContent) THEN "content"
  ELSE IF HasKey(data, KeyName) THEN "tool_start"
  ELSE IF HasKey(data, KeyInput) /\ ~HasKey(data, KeyName) THEN "tool_input"
  ELSE IF HasKey(data, KeyStop) /\ ~HasKey(data, KeyName) THEN "tool_stop"
  ELSE IF HasKey(data, KeyFollowupPrompt) THEN "followup"
  ELSE IF HasKey(data, KeyContextUsage) THEN "context_usage"
  ELSE "null"

detectEventType(data) ==
  IF HasKey(data, KeyContent) THEN "content"
  ELSE IF HasKey(data, KeyName) THEN "tool_start"
  ELSE IF HasKey(data, KeyInput) /\ ~HasKey(data, KeyName) THEN "tool_input"
  ELSE IF HasKey(data, KeyStop) /\ ~HasKey(data, KeyName) THEN "tool_stop"
  ELSE IF HasKey(data, KeyFollowupPrompt) THEN "followup"
  ELSE IF HasKey(data, KeyUsage) THEN "usage"
  ELSE IF HasKey(data, KeyContextUsage) THEN "context_usage"
  ELSE "null"

(***************************************************************************)
(* finalizeToolCall()                                                      *)
(***************************************************************************)
\* try { args = JSON.stringify(JSON.parse(args)) } catch { args = "{}" }
Reserialized(parsed) == IF parsed.ok THEN JsonStringify(parsed.v) ELSE EmptyObjectText

CanonicalArguments(args) ==
  IF ~IsBlank(args) THEN Reserialized(JsonParse(args)) ELSE EmptyObjectText

\* mutant: a call whose arguments do not parse is dropped
finalizeToolCallDroppingUnparsed(p) ==
  IF p.currentToolCall = JNull THEN p
  ELSE IF CanonicalArguments(p.currentToolCall.arguments) = EmptyObjectText
  THEN [p EXCEPT !.currentToolCall = JNull]
  ELSE [p EXCEPT
          !.toolCalls = Append(@, [id        |-> p.currentToolCall.id,
                                   name      |-> p.currentToolCall.name,
                                   arguments |-> CanonicalArguments(p.currentToolCall.arguments)]),
          !.currentToolCall = JNull]

\* mutant: a call without argument text is not recorded
finalizeToolCallSkippingBlank(p) ==
  IF p.currentToolCall = JNull THEN p
  ELSE IF IsBlank(p.currentToolCall.arguments)
  THEN [p EXCEPT !.currentToolCall = JNull]
  ELSE [p EXCEPT
          !.toolCalls = Append(@, [id        |-> p.currentToolCall.id,
                                   name      |-> p.currentToolCall.name,
                                   arguments |-> CanonicalArguments(p.currentToolCall.arguments)]),
          !.currentToolCall = JNull]

\* mutant: the list is assigned the new record instead of being pushed to
finalizeToolCallAssigning(p) ==
  IF p.currentToolCall = JNull THEN p
  ELSE [p EXCEPT
          !.toolCalls = <<[id        |-> p.currentToolCall.id,
                           name      |-> p.currentToolCall.name,
                           arguments |-> CanonicalArguments(p.currentToolCall.arguments)]>>,
          !.currentToolCall = JNull]

finalizeToolCall(p) ==
  IF p.currentToolCall = JNull THEN p
  ELSE [p EXCEPT
          !.toolCalls = Append(@, [id        |-> p.currentToolCall.id,
                                   name      |-> p.currentToolCall.name,
                                   arguments |-> CanonicalArguments(p.currentToolCall.arguments)]),
          !.currentToolCall = JNull]

(***************************************************************************)
(* processEvent(data, type)                                                *)
(***************************************************************************)
\* the text taken from data.input
InputText(data) ==
  LET inputData == Get(data, KeyInput)
  IN  IF IsObjectType(inputData) THEN JsonStringify(inputData)
      ELSE IF Truthy(inputData) THEN ToStr(inputData)
      ELSE <<>>

\* x || fallback
OrElse(x, fallback) == IF Truthy(x) THEN x ELSE fallback

\* mutant: the text is not compared with the last one
EmitContentWithoutDedup(p, data, content) ==
  IF Truthy(Get(data, KeyFollowupPrompt)) THEN [p |-> p, event |-> NoEvent]
  ELSE [p |-> [p EXCEPT !.lastContent = content],
        event |-> Event("content", content)]

\* mutant: a followup-tagged text is remembered although it is not emitted
EmitContentRememberingFollowup(p, data, content) ==
  IF Truthy(Get(data, KeyFollowupPrompt))
  THEN [p |-> [p EXCEPT !.lastContent = content], event |-> NoEvent]
  ELSE IF StrictEq(content, p.lastContent) THEN [p |-> p, event |-> NoEvent]
  ELSE [p |-> [p EXCEPT !.lastContent = content],
        event |-> Event("content", content)]

EmitContent(p, data, content) ==
  IF Truthy(Get(data, KeyFollowupPrompt)) THEN [p |-> p, event |-> NoEvent]
  ELSE IF StrictEq(content, p.lastContent) THEN [p |-> p, event |-> NoEvent]
  ELSE [p |-> [p EXCEPT !.lastContent = content],
        event |-> Event("content", content)]

ProcessContent(p, data) ==
  EmitContent(p, data, OrElse(Get(data, KeyContent), JStr(<<>>)))

\* this.currentToolCall = {id, name, arguments}
OpenToolCall(p, data, given) ==
  [p EXCEPT
     !.currentToolCall =
        [id        |-> IF Truthy(given) THEN given ELSE generateToolCallId(p.idCount),
         name      |-> OrElse(Get(data, KeyName), JStr(<<>>)),
         arguments |-> InputText(data)],
     !.idCount = IF Truthy(given) THEN @ ELSE @ + 1]

\* mutant: the stop field of a tool_start payload is ignored
StopIfAskedIgnoringStop(p, data) == [p |-> p, event |-> NoEvent]

\* if (data.stop) this.finalizeToolCall()
StopIfAsked(p, data) ==
  [p |-> IF Truthy(Get(data, KeyStop)) THEN finalizeToolCall(p) ELSE p,
   event |-> NoEvent]

\* mutant: the call that is still open is overwritten, not finalized
ProcessToolStartOverOpenCall(p, data) ==
  StopIfAsked(OpenToolCall(p, data, Get(data, KeyToolUseId)), data)

ProcessToolStart(p, data) ==
  StopIfAsked(OpenToolCall(IF p.currentToolCall # JNull THEN finalizeToolCall(p) ELSE p,
                           data, Get(data, KeyToolUseId)),
              data)

\* mutant: a fragment replaces the text gathered so far
ProcessToolInputReplacing(p, data) ==
  [p |-> IF p.currentToolCall # JNull
         THEN [p EXCEPT !.currentToolCall.arguments = InputText(data)]
         ELSE p,
   event |-> NoEvent]

ProcessToolInput(p, data) ==
  [p |-> IF p.currentToolCall # JNull
         THEN [p EXCEPT !.currentToolCall.arguments = @ \o InputText(data)]
         ELSE p,
   event |-> NoEvent]

\* mutant: a stop payload finalizes whatever its stop field holds
ProcessToolStopWhateverValue(p, data) ==
  [p |-> IF p.currentToolCall # JNull THEN finalizeToolCall(p) ELSE p,
   event |-> NoEvent]

ProcessToolStop(p, data) ==
  [p |-> IF p.currentToolCall # JNull /\ Truthy(Get(data, KeyStop))
         THEN finalizeToolCall(p)
         ELSE p,
   event |-> NoEvent]

\* v ?? 0
OrZero(v) == IF v.t \in {"null", "undefined"} THEN JNum(0) ELSE v

\* mutant: a usage payload closes the call that is open
processEventClosingOnUsage(p, data, type) ==
  CASE type = "content"       -> ProcessContent(p, data)
    [] type = "tool_start"    -> ProcessToolStart(p, data)
    [] type = "tool_input"    -> ProcessToolInput(p, data)
    [] type = "tool_stop"     -> ProcessToolStop(p, data)
    [] type = "usage"         -> [p |-> finalizeToolCall(p),
                                  event |-> Event("usage", OrZero(Get(data, KeyUsage)))]
    [] type = "context_usage" -> [p |-> p, event |-> Event("context_usage", OrZero(Get(data, KeyContextUsage)))]
    [] OTHER                  -> [p |-> p, event |-> NoEvent]

processEvent(p, data, type) ==
  CASE type = "content"       -> ProcessContent(p, data)
    [] type = "tool_start"    -> ProcessToolStart(p, data)
    [] type = "tool_input"    -> ProcessToolInput(p, data)
    [] type = "tool_stop"     -> ProcessToolStop(p, data)
    [] type = "usage"         -> [p |-> p, event |-> Event("usage", OrZero(Get(data, KeyUsage)))]
    [] type = "context_usage" -> [p |-> p, event |-> Event("context_usage", OrZero(Get(data, KeyContextUsage)))]
    [] OTHER                  -> [p |-> p, event |-> NoEvent]

(***************************************************************************)
(* The completion state.  isComplete() is called by doGenerate and         *)
(* doStream after every feed; the parser that defines it is not part of    *)
(* the sources, so it is modelled from its specification: true once a      *)
(* usage event has been observed and no tool-call accumulator is open.     *)
(***************************************************************************)
ObserveUsage(p, type) == [p EXCEPT !.receivedUsage = @ \/ type = "usage"]

isComplete(p) == p.receivedUsage /\ p.currentToolCall = JNull

(***************************************************************************)
(* feed(chunk): the body of the try block for one payload, the catch, and  *)
(* the loop over the payloads.                                             *)
(***************************************************************************)
Attempt(p, event, threw, data, type) ==
  [p |-> p, event |-> event, threw |-> threw, data |-> data, type |-> type]

\* const event = this.processEvent(data, eventType); if (event) events.push(event)
Dispatched(r, data, type) ==
  Attempt(ObserveUsage(r.p, type), r.event, "none", data, type)

\* if (eventType) { ... }
Classified(p, data, type) ==
  IF type = "null" THEN Attempt(p, NoEvent, "none", data, type)
  ELSE Dispatched(processEvent(p, data, type), data, type)

\* const data = JSON.parse(payload); const eventType = detectEventType(data)
Parsed(p, parsed) ==
  IF ~parsed.ok THEN Attempt(p, NoEvent, "SyntaxError", JNull, "null")
  ELSE IF InThrows(parsed.v) THEN Attempt(p, NoEvent, "TypeError", parsed.v, "null")
  ELSE Classified(p, parsed.v, detectEventType(parsed.v))

PayloadBody(p, payload) == Parsed(p, JsonParse(payload))

\* try { ... } catch { /* skip malformed JSON */ }: every exception of the
\* body is caught; `caught` records it
\* mutant: the catch passes the exception on, which ends the call
CatchPassingOn(a) ==
  [p |-> a.p, event |-> a.event, data |-> a.data, type |-> a.type,
   caught |-> "none", threw |-> a.threw]

Catch(a) ==
  [p |-> a.p, event |-> a.event, data |-> a.data, type |-> a.type,
   caught |-> a.threw, threw |-> "none"]

TryPayload(p, payload) == Catch(PayloadBody(p, payload))

StepEntry(payload, pre, a) ==
  [payload |-> payload, caught |-> a.caught, data |-> a.data,
   type |-> a.type, pre |-> View(pre), post |-> View(a.p), event |-> a.event]

\* for (const payload of payloads) { ... }; return events
RECURSIVE ProcessPayloads(_, _, _, _, _)
RECURSIVE AfterPayload(_, _, _, _, _, _)
ProcessPayloads(p, payloads, i, events, log) ==
  IF i > Len(payloads)
  THEN [p |-> p, events |-> events, log |-> log, threw |-> "none"]
  ELSE AfterPayload(p, payloads, i, events, log, TryPayload(p, payloads[i]))

\* mutant: a new event is put in front of the events of the call
AfterPayloadPrepending(p, payloads, i, events, log, a) ==
  IF a.threw # "none"
  THEN [p |-> a.p, events |-> events, log |-> log, threw |-> a.threw]
  ELSE ProcessPayloads(a.p, payloads, i + 1,
                       IF a.event # NoEvent THEN <<a.event>> \o events ELSE events,
                       Append(log, StepEntry(payloads[i], p, a)))

AfterPayload(p, payloads, i, events, log, a) ==
  IF a.threw # "none"
  THEN [p |-> a.p, events |-> events, log |-> log, threw |-> a.threw]
  ELSE ProcessPayloads(a.p, payloads, i + 1,
                       IF a.event # NoEvent THEN Append(events, a.event) ELSE events,
                       Append(log, StepEntry(payloads[i], p, a)))

\* this.rawBuffer = remaining, then the loop
Decoded(p, decoded) ==
  ProcessPayloads([p EXCEPT !.rawBuffer = decoded.remaining],
                  decoded.payloads, 1, <<>>, <<>>)

FeedOp(p, chunk) == Decoded(p, extractJsonPayloads(p.rawBuffer \o chunk))

(***************************************************************************)
(* deduplicateToolCalls(calls)                                             *)
(***************************************************************************)
\* Map keys are compared by SameValueZero
SameKey(a, b) == StrictEq(a, b)

IndexOfId(kept, id) ==
  LET hits == {i \in 1..Len(kept) : SameKey(kept[i].id, id)}
  IN  IF hits = {} THEN 0 ELSE CHOOSE i \in hits : TRUE

\* mutant: the first record of an id is never replaced
RECURSIVE DedupByIdKeepingFirst(_, _, _)
DedupByIdKeepingFirst(calls, i, byId) ==
  IF i > Len(calls) THEN byId
  ELSE IF ~Truthy(calls[i].id) THEN DedupByIdKeepingFirst(calls, i + 1, byId)
  ELSE IF IndexOfId(byId, calls[i].id) = 0
  THEN DedupByIdKeepingFirst(calls, i + 1, Append(byId, calls[i]))
  ELSE DedupByIdKeepingFirst(calls, i + 1, byId)

\* mutant: a record that replaces another moves to the end (delete, then set)
RECURSIVE DedupByIdMovingReplaced(_, _, _)
DedupByIdMovingReplaced(calls, i, byId) ==
  IF i > Len(calls) THEN byId
  ELSE IF ~Truthy(calls[i].id) THEN DedupByIdMovingReplaced(calls, i + 1, byId)
  ELSE IF IndexOfId(byId, calls[i].id) = 0
  THEN DedupByIdMovingReplaced(calls, i + 1, Append(byId, calls[i]))
  ELSE IF /\ calls[i].arguments # EmptyObjectText
          /\ \/ byId[IndexOfId(byId, calls[i].id)].arguments = EmptyObjectText
             \/ Len(calls[i].arguments) > Len(byId[IndexOfId(byId, calls[i].id)].arguments)
  THEN DedupByIdMovingReplaced(
         calls, i + 1,
         Append(SubSeq(byId, 1, IndexOfId(byId, calls[i].id) - 1)
                  \o SubSeq(byId, IndexOfId(byId, calls[i].id) + 1, Len(byId)),
                calls[i]))
  ELSE DedupByIdMovingReplaced(calls, i + 1, byId)

RECURSIVE DedupById(_, _, _)
DedupById(calls, i, byId) ==
  IF i > Len(calls) THEN byId
  ELSE LET tc == calls[i]
           at == IndexOfId(byId, tc.id)
       IN  IF ~Truthy(tc.id) THEN DedupById(calls, i + 1, byId)
           ELSE IF at = 0 THEN DedupById(calls, i + 1, Append(byId, tc))
           ELSE IF /\ tc.arguments # EmptyObjectText
                   /\ \/ byId[at].arguments = EmptyObjectText
                      \/ Len(tc.arguments) > Len(byId[at].arguments)
           THEN DedupById(calls, i + 1, [byId EXCEPT ![at] = tc])
           ELSE DedupById(calls, i + 1, byId)

\* A template literal converts its value with ToString.  An object is
\* converted by its toString method, then by valueOf: JSON.parse makes
\* "toString" an own data property, which is not callable, and the inherited
\* valueOf returns the object itself, so the conversion raises a TypeError.
\* An array is joined, converting each element but null.
RECURSIVE ToStringThrows(_)
ToStringThrows(v) ==
  CASE v.t = "obj" -> HasKey(v, KeyToString)
    [] v.t = "arr" -> \E i \in 1..Len(v.items) : ToStringThrows(v.items[i])
    [] OTHER       -> FALSE

\* `${tc.name}-${tc.arguments}`
DedupKey(tc) == ToStr(tc.name) \o <<45>> \o tc.arguments

RECURSIVE DedupByKey(_, _, _, _)
DedupByKey(kept, i, seen, unique) ==
  IF i > Len(kept) THEN [threw |-> "none", value |-> unique]
  ELSE IF ToStringThrows(kept[i].name) THEN [threw |-> "TypeError", value |-> <<>>]
  ELSE IF DedupKey(kept[i]) \in seen THEN DedupByKey(kept, i + 1, seen, unique)
  ELSE DedupByKey(kept, i + 1, seen \cup {DedupKey(kept[i])}, Append(unique, kept[i]))

deduplicateToolCalls(calls) == DedupByKey(DedupById(calls, 1, <<>>), 1, {}, <<>>)

(***************************************************************************)
(* getToolCalls() and reset()                                              *)
(***************************************************************************)
Returned(p, unique) ==
  [p |-> p, handed |-> p.toolCalls, value |-> unique.value, threw |-> unique.threw]

Deduplicated(p) == Returned(p, deduplicateToolCalls(p.toolCalls))

\* mutant: the finalized list is emptied once it has been returned
Drained(r) == [r EXCEPT !.p.toolCalls = <<>>]

GetToolCallsDraining(p) ==
  Drained(Deduplicated(IF p.currentToolCall # JNull THEN finalizeToolCall(p) ELSE p))

\* mutant: the open call is left open
GetToolCallsLeavingOpen(p) == Deduplicated(p)

GetToolCallsOp(p) ==
  Deduplicated(IF p.currentToolCall # JNull THEN finalizeToolCall(p) ELSE p)

\* mutant: the bytes of a partial frame survive the reset
ResetKeepingBuffer(p) ==
  [p EXCEPT !.lastContent = JNull, !.currentToolCall = JNull, !.toolCalls = <<>>]

ResetOp(p) ==
  [p EXCEPT !.rawBuffer = <<>>, !.lastContent = JNull,
            !.currentToolCall = JNull, !.toolCalls = <<>>]

\* reset() "clears all state to initial", the completion state included
ClearCompletion(p) == [p EXCEPT !.receivedUsage = FALSE]

(***************************************************************************)
(* The wire format.  A frame is                                            *)
(*   [total_len:4][headers_len:4][prelude_crc:4][headers][payload][crc:4]  *)
(* FrameWith takes the bytes of the headers-length field as they are, so   *)
(* that a frame can lie about its headers.                                 *)
(***************************************************************************)
U32BE(n) == <<n \div 16777216, (n \div 65536) % 256, (n \div 256) % 256, n % 256>>

PreludeCrc == <<0, 0, 0, 0>>

MessageCrc == <<0, 0, 0, 0>>

FrameWith(headersLenField, headers, payload) ==
  U32BE(MinTotalLen + Len(headers) + Len(payload))
    \o headersLenField \o PreludeCrc \o headers \o payload \o MessageCrc

Frame(headers, payload) == FrameWith(U32BE(Len(headers)), headers, payload)

\* all sequences of 1..n elements of set
RECURSIVE SeqsUpTo(_, _)
SeqsUpTo(set, n) ==
  IF n = 0 THEN {<<>>}
  ELSE LET shorter == SeqsUpTo(set, n - 1)
       IN  shorter \cup {Append(q, x) : q \in shorter, x \in set}

\* the offsets at which the segments of a stream end
RECURSIVE Boundaries(_, _)
Boundaries(segments, from) ==
  IF segments = <<>> THEN {}
  ELSE {from + Len(Head(segments))}
       \cup Boundaries(Tail(segments), from + Len(Head(segments)))

(***************************************************************************)
(* KiroAuthManager.  Refresh tokens are numbers: Kiro's database holds the *)
(* token of the account signed in, and the auth endpoint may answer a      *)
(* refresh with a rotated token.  The access token issued by the k-th      *)
(* refresh request is k, so that a token names the request it came from.   *)
(***************************************************************************)
NoToken == 0

NoTime == 0

NoPromise == 0

FirstAccount == 1

SecondAccount == 2

Accounts == {FirstAccount, SecondAccount}

Rotated(token) == token + Cardinality(Accounts)

TOKEN_REFRESH_THRESHOLD == 600

DefaultExpiresIn == 3600

ExpiryMargin == 60

Epoch == 1000000

NoError == [msg |-> "none", status |-> 0]

Manager ==
  [refreshToken |-> refreshToken, accessToken |-> accessToken,
   expiresAt |-> expiresAt, refreshPromise |-> refreshPromise]

NewManager ==
  [refreshToken |-> NoToken, accessToken |-> NoToken, expiresAt |-> NoTime,
   refreshPromise |-> NoPromise]

\* db is what readTokenFromDb() finds: NoToken without database or row
syncFromKiroDb(m, db) ==
  IF db = NoToken \/ db = m.refreshToken THEN m
  ELSE [m EXCEPT !.refreshToken = db, !.accessToken = NoToken,
                 !.expiresAt = NoTime]

isTokenExpiringSoon(m, clock) ==
  IF m.expiresAt = NoTime THEN TRUE
  ELSE clock + TOKEN_REFRESH_THRESHOLD * 1000 >= m.expiresAt

\* refreshTokenRequest() up to its first await: without a refresh token it
\* throws before any request is made, else the request carries the token
\* held at this moment
RefreshRequest(m) ==
  [sent |-> m.refreshToken, http |-> m.refreshToken # NoToken,
   state |-> "pending", error |-> NoError]

\* mutant: a refresh is started although one is pending
StartRefreshAlways(m, log) ==
  [m |-> [m EXCEPT !.refreshPromise = Len(log) + 1],
   log |-> Append(log, RefreshRequest(m)), awaits |-> Len(log) + 1,
   token |-> NoToken]

\* lines 210-215: start a refresh unless one is pending, and await it
StartRefresh(m, log) ==
  IF m.refreshPromise = NoPromise
  THEN [m |-> [m EXCEPT !.refreshPromise = Len(log) + 1],
        log |-> Append(log, RefreshRequest(m)), awaits |-> Len(log) + 1,
        token |-> NoToken]
  ELSE [m |-> m, log |-> log, awaits |-> m.refreshPromise, token |-> NoToken]

\* lines 205-215, after the synchronisation with the database
CachedOrRefresh(m, log, clock) ==
  IF m.accessToken # NoToken /\ ~isTokenExpiringSoon(m, clock)
  THEN [m |-> m, log |-> log, awaits |-> NoPromise, token |-> m.accessToken]
  ELSE StartRefresh(m, log)

\* getAccessToken() up to its await or its early return
getAccessToken(m, log, db, clock) ==
  CachedOrRefresh(syncFromKiroDb(m, db), log, clock)

ClearToken(m) == [m EXCEPT !.accessToken = NoToken, !.expiresAt = NoTime]

\* mutant: the cached token survives
forceRefreshKeepingToken(m, log, db, clock) ==
  getAccessToken(syncFromKiroDb(m, db), log, db, clock)

forceRefresh(m, log, db, clock) ==
  getAccessToken(ClearToken(syncFromKiroDb(m, db)), log, db, clock)

\* what the auth endpoint answers: a token, a token and a rotated refresh
\* token, a status that is not ok, or a body without accessToken
RefreshAnswers == {"ok", "rotated", "refused", "empty"}

RefreshError(r, answer) ==
  IF ~r.http THEN [msg |-> "Kiro refresh token not found", status |-> 0]
  ELSE IF answer = "refused" THEN [msg |-> "Token refresh failed", status |-> 401]
  ELSE IF answer = "empty"
  THEN [msg |-> "Token refresh response missing accessToken", status |-> 0]
  ELSE NoError

RefreshSucceeds(r, answer) == r.http /\ answer \in {"ok", "rotated"}

\* lines 177-198 and the finally of line 211, for the k-th refresh
RefreshSettled(m, k, r, answer, clock) ==
  IF RefreshSucceeds(r, answer)
  THEN [m EXCEPT !.accessToken = k,
                 !.refreshToken = IF answer = "rotated" THEN Rotated(r.sent) ELSE @,
                 !.expiresAt = clock + (DefaultExpiresIn - ExpiryMargin) * 1000,
                 !.refreshPromise = NoPromise]
  ELSE [m EXCEPT !.refreshPromise = NoPromise]

RefreshOutcome(r, answer) ==
  [r EXCEPT !.state = IF RefreshSucceeds(r, answer) THEN "ok" ELSE "failed",
            !.error = RefreshError(r, answer)]

(***************************************************************************)
(* makeKiroRequest(auth, payload, retries = 3).  A call is at "idle"       *)
(* before it is made, at "awaitRefresh" inside getAccessToken(), at        *)
(* "fetching" while its request is with the API, at "readingBody" in       *)
(* res.text(), at "backoff" in the delay, and ends "returned" or "threw".  *)
(* attempts is the history of its fetches: the token sent, the status      *)
(* received, and the refreshes that had settled when it was received.      *)
(***************************************************************************)
Retries == 3

MaxBackoff == 8000

NewCall ==
  [pc |-> "idle", attempt |-> 0, token |-> NoToken, lastError |-> NoError,
   awaits |-> NoPromise, status |-> 0, delay |-> 0, attempts |-> <<>>,
   error |-> NoError,
   atCall |-> [db |-> NoToken, held |-> NoToken, cached |-> NoToken,
               pending |-> NoPromise, expires |-> NoTime, clock |-> NoTime]]

\* line 45: the fetch with the token of this attempt
Fetching(c, token) ==
  [c EXCEPT !.pc = "fetching", !.token = token, !.awaits = NoPromise,
            !.attempts = Append(@, [token |-> token, status |-> 0,
                                    settled |-> {}])]

Thrown(c, error) == [c EXCEPT !.pc = "threw", !.error = error, !.awaits = NoPromise]

\* lines 40-49 with the result g of getAccessToken() or forceRefresh()
WithToken(c, g) ==
  [m |-> g.m, log |-> g.log,
   c |-> IF g.awaits = NoPromise THEN Fetching(c, g.token)
         ELSE [c EXCEPT !.pc = "awaitRefresh", !.awaits = g.awaits]]

\* line 74
OrGeneric(error) ==
  IF error = NoError
  THEN [msg |-> "Kiro API request failed after retries", status |-> 0]
  ELSE error

\* lines 39-42 and 74: the head of the loop
LoopHead(c, m, log, db, clock) ==
  IF c.attempt >= Retries
  THEN [m |-> m, log |-> log, c |-> Thrown(c, OrGeneric(c.lastError))]
  ELSE IF c.attempt = 0 THEN WithToken(c, getAccessToken(m, log, db, clock))
  ELSE WithToken(c, forceRefresh(m, log, db, clock))

\* lines 215-220: getAccessToken() after its await
Resumed(c, m, refresh) ==
  IF refresh.state = "failed" THEN Thrown(c, refresh.error)
  ELSE IF m.accessToken = NoToken
  THEN Thrown(c, [msg |-> "Failed to obtain access token", status |-> 0])
  ELSE Fetching(c, m.accessToken)

\* res.ok
IsOk(status) == status >= 200 /\ status <= 299

\* lines 51-54 for a response with this status
Received(c, status, settled) ==
  [c EXCEPT !.status = status,
            !.attempts[Len(c.attempts)] = [@ EXCEPT !.status = status,
                                                  !.settled = settled],
            !.pc = IF IsOk(status) THEN "returned" ELSE "readingBody"]

\* line 62
IsRetryable(status) == status = 429 \/ status >= 500

\* line 64
Backoff(attempt) == Min(1000 * 2 ^ attempt, MaxBackoff)

ApiError(status) == [msg |-> "Kiro API", status |-> status]

Continue(c, error) == [c EXCEPT !.lastError = error, !.attempt = @ + 1]

\* mutant: every status that is not ok is tried again
AfterBodyRetryingAll(c, m, log, db, clock) ==
  IF c.status = 403
  THEN LoopHead(Continue(c, ApiError(c.status)), m, log, db, clock)
  ELSE [m |-> m, log |-> log,
        c |-> [c EXCEPT !.pc = "backoff", !.delay = Backoff(c.attempt)]]

\* lines 56-71, once res.text() has settled
AfterBody(c, m, log, db, clock) ==
  IF c.status = 403
  THEN LoopHead(Continue(c, ApiError(c.status)), m, log, db, clock)
  ELSE IF IsRetryable(c.status)
  THEN [m |-> m, log |-> log,
        c |-> [c EXCEPT !.pc = "backoff", !.delay = Backoff(c.attempt)]]
  ELSE [m |-> m, log |-> log,
        c |-> Thrown(c, [msg |-> "Kiro API error", status |-> c.status])]

\* lines 66-67, once the delay has passed
AfterBackoff(c, m, log, db, clock) ==
  LoopHead(Continue(c, ApiError(c.status)), m, log, db, clock)

\* the refreshes that have settled
Settled(log) == {k \in 1..Len(log) : log[k].state # "pending"}

\* the module of index.ts after its import: the singleton manager is built
\* (its constructor synchronises with the database), no call has been made
NewGateway(n, api, endpoint, dbs) ==
  /\ kiroDb \in dbs
  /\ refreshToken = syncFromKiroDb(NewManager, kiroDb).refreshToken
  /\ accessToken = NoToken
  /\ expiresAt = NoTime
  /\ refreshPromise = NoPromise
  /\ now = Epoch
  /\ refreshes = <<>>
  /\ requests = [i \in 1..n |-> NewCall]
  /\ statuses = api
  /\ answers = endpoint
  /\ logins = 0

NoResult == [finishReason |-> "none"]

\* doGenerate or doStream at its first reader.read(): the idle timer runs
NewStream(modes) ==
  /\ mode \in modes
  /\ position = "reading"
  /\ reader = "open"
  /\ idleTimer = "armed"
  /\ keepsOpen \in BOOLEAN
  /\ textStartEmitted = FALSE
  /\ textParts = <<>>
  /\ parts = <<>>
  /\ closed = FALSE
  /\ generated = NoResult
  /\ ops = <<>>

\* no response body is being consumed
NoStream ==
  /\ mode = "none"
  /\ position = "none"
  /\ reader = "none"
  /\ idleTimer = "cleared"
  /\ keepsOpen = FALSE
  /\ textStartEmitted = FALSE
  /\ textParts = <<>>
  /\ parts = <<>>
  /\ closed = FALSE
  /\ generated = NoResult
  /\ ops = <<>>

(***************************************************************************)
(* Construction: a new parser, a response body made of segments the        *)
(* backend wrote, and a transport that ends its chunks at any byte         *)
(* (bytewise) or at the ends of the segments.                              *)
(***************************************************************************)
StartParser(segmentSeqs, bytewise, tapes) ==
  /\ rawBuffer = <<>>
  /\ lastContent = JNull
  /\ currentToolCall = JNull
  /\ toolCalls = <<>>
  /\ receivedUsage = FALSE
  /\ idCount = 0
  /\ idTape \in tapes
  /\ \E segments \in segmentSeqs :
       /\ body = segments
       /\ wire = Flatten(segments)
       /\ cuts = IF bytewise THEN 1..Len(Flatten(segments))
                 ELSE Boundaries(segments, 0)
  /\ sent = 0
  /\ fed = <<>>
  /\ emitted = <<>>
  /\ steps = <<>>
  /\ ret = [op |-> "new"]
  /\ raised = FALSE
  /\ queried = FALSE
  /\ resets = 0

\* a parser on its own: no call of makeKiroRequest, no consuming loop
Start(segmentSeqs, bytewise, tapes) ==
  /\ StartParser(segmentSeqs, bytewise, tapes)
  /\ NewGateway(0, {}, {}, {FirstAccount})
  /\ NoStream
  /\ NoConversion

(***************************************************************************)
(* The operations.                                                         *)
(***************************************************************************)
SetParser(p) ==
  /\ rawBuffer' = p.rawBuffer
  /\ lastContent' = p.lastContent
  /\ currentToolCall' = p.currentToolCall
  /\ toolCalls' = p.toolCalls
  /\ receivedUsage' = p.receivedUsage
  /\ idCount' = p.idCount

\* what a feed call leaves behind
Fed(r) ==
  /\ SetParser(r.p)
  /\ steps' = steps \o r.log
  /\ raised' = (r.threw # "none")
  /\ emitted' = IF r.threw = "none" THEN emitted \o r.events ELSE emitted
  /\ ret' = IF r.threw = "none" THEN [op |-> "feed", value |-> r.events]
            ELSE [op |-> "feed", threw |-> r.threw]

\* the caller reads the next chunk, which ends at a cut, and feeds it
Feed ==
  /\ ~raised
  /\ \E cut \in {c \in cuts : c > sent} :
       /\ Fed(FeedOp(Parser, SubSeq(wire, 1, cut - sent)))
       /\ wire' = SubSeq(wire, cut - sent + 1, Len(wire))
       /\ sent' = cut
       /\ fed' = fed \o SubSeq(wire, 1, cut - sent)
  /\ UNCHANGED <<idTape, body, cuts, queried, resets>>
  /\ UNCHANGED <<authVars, streamVars, converterVars>>

\* what a getToolCalls call leaves behind; `again` says that the call before
\* it was a getToolCalls too, and `previous` is what that one returned
Got(r) ==
  /\ SetParser(r.p)
  /\ raised' = (r.threw # "none")
  /\ ret' = IF r.threw = "none"
            THEN [op |-> "getToolCalls", value |-> r.value, handed |-> r.handed,
                  pre |-> View(Parser), buffer |-> rawBuffer,
                  again |-> ret.op = "getToolCalls",
                  previous |-> IF ret.op = "getToolCalls" THEN ret.value ELSE <<>>]
            ELSE [op |-> "getToolCalls", threw |-> r.threw, handed |-> r.handed,
                  pre |-> View(Parser)]

GetToolCalls ==
  /\ ~raised
  /\ Got(GetToolCallsOp(Parser))
  /\ queried' = TRUE
  /\ UNCHANGED <<idTape, body, wire, cuts, sent, fed, emitted, steps, resets>>
  /\ UNCHANGED <<authVars, streamVars, converterVars>>

MaxResets == 1

Reset ==
  /\ ~raised
  /\ resets < MaxResets
  /\ SetParser(ClearCompletion(ResetOp(Parser)))
  /\ fed' = <<>>
  /\ emitted' = <<>>
  /\ steps' = <<>>
  /\ queried' = FALSE
  /\ resets' = resets + 1
  /\ ret' = [op |-> "reset"]
  /\ UNCHANGED <<idTape, body, wire, cuts, sent, raised>>
  /\ UNCHANGED <<authVars, streamVars, converterVars>>

Next == Feed \/ GetToolCalls \/ Reset

\* a caller that never resets its parser
NextFresh == Feed \/ GetToolCalls

(***************************************************************************)
(* Payload texts the backend sends.                                        *)
(***************************************************************************)
PContentA == Enc("{\"content\":\"a\"}")

PContentB == Enc("{\"content\":\"b\"}")

PUsage == Enc("{\"usage\":1}")

PBlank == Enc("  ")

(***************************************************************************)
(* SpecBytes: byte streams of well-formed frames, frames with a wrong      *)
(* prelude and stray bytes, cut into chunks at every byte.                 *)
(***************************************************************************)
MaxSegments == 2

\* headers_len 0xFFFFFFE1 (-31 as an int32) and 100 (beyond the frame)
HighBitHeadersLen == <<255, 255, 255, 225>>

WellFormedFrames ==
  { [headers |-> <<>>, payload |-> PContentA],
    [headers |-> <<7, 7>>, payload |-> PContentB],
    [headers |-> <<>>, payload |-> PUsage],
    [headers |-> <<>>, payload |-> <<>>],
    [headers |-> <<>>, payload |-> PBlank] }

WellFormedSegments == {Frame(f.headers, f.payload) : f \in WellFormedFrames}

MalformedSegments ==
  { FrameWith(HighBitHeadersLen, <<>>, PContentA),
    FrameWith(U32BE(100), <<>>, PContentA),
    <<255>>,
    <<0, 0, 0, 15, 0, 0, 0, 0, 0, 0, 0, 0, 0, 0, 0>> }

ByteSegments == WellFormedSegments \cup MalformedSegments

DefaultTapes == {<<Enc("call_0000000a"), Enc("call_0000000b")>>}

InitBytes == Start(SeqsUpTo(ByteSegments, MaxSegments) \ {<<>>}, TRUE, DefaultTapes)

SpecBytes == InitBytes /\ [][NextFresh]_vars

(***************************************************************************)
(* C1.  Chunk-boundary invariance: for every byte sequence B and every     *)
(* way of splitting B into chunks, feeding the chunks in order to a fresh  *)
(* parser yields the same events and the same getToolCalls() result        *)
(* (name, arguments, and the id where a toolUseId was supplied) as         *)
(* feeding B in a single feed call.  B is `fed`, the bytes fed so far.     *)
(***************************************************************************)
IsGeneratedId(id) == id.t = "str" /\ \E i \in 1..Len(idTape) : idTape[i] = id.s

Observable(calls) ==
  [i \in 1..Len(calls) |->
     [name |-> calls[i].name, arguments |-> calls[i].arguments,
      id |-> IF IsGeneratedId(calls[i].id) THEN JNull ELSE calls[i].id]]

SameAsSingleFeed(whole) ==
  /\ emitted = whole.events
  /\ Observable(GetToolCallsOp(Parser).value) = Observable(GetToolCallsOp(whole.p).value)

C1_ChunkBoundaryInvariance ==
  (resets = 0 /\ ~queried) => SameAsSingleFeed(FeedOp(NewParser(0), fed))

(***************************************************************************)
(* C2.  For a byte stream that is a concatenation of well-formed frames,   *)
(* once all bytes have been fed the decoder has produced, in frame order   *)
(* and exactly once each, the text of every frame whose payload region is  *)
(* non-empty and non-blank, has produced nothing else, and the retained    *)
(* byte buffer is empty.                                                   *)
(***************************************************************************)
PayloadOf(segment) ==
  (CHOOSE f \in WellFormedFrames : Frame(f.headers, f.payload) = segment).payload

RECURSIVE ExpectedTexts(_)
ExpectedTexts(segments) ==
  IF segments = <<>> THEN <<>>
  ELSE (IF PayloadOf(Head(segments)) \in {<<>>, PBlank} THEN <<>>
        ELSE <<PayloadOf(Head(segments))>>)
       \o ExpectedTexts(Tail(segments))

AllWellFormed == \A i \in 1..Len(body) : body[i] \in WellFormedSegments

DecodedTexts == [i \in 1..Len(steps) |-> steps[i].payload]

C2_WellFormedStreamDecoded ==
  (AllWellFormed /\ wire = <<>> /\ resets = 0)
    => (DecodedTexts = ExpectedTexts(body) /\ rawBuffer = <<>>)

C2_Witness ==
  /\ AllWellFormed /\ wire = <<>> /\ Len(body) = 2
  /\ body[1] = Frame(<<7, 7>>, PContentB) /\ body[2] = Frame(<<>>, PContentA)
  /\ DecodedTexts = <<PContentB, PContentA>>
  /\ Len(fed) = Len(Flatten(body)) /\ rawBuffer = <<>>


(***************************************************************************)
(* Streams of anomalies, fed frame by frame: corrupt framing, payloads     *)
(* that are not JSON, JSON payloads that are not objects, objects of no    *)
(* known type, tool arguments that do not parse, and a tool_start whose    *)
(* name is an object.                                                      *)
(***************************************************************************)
PNull == Enc("null")

PNumber == Enc("5")

PString == Enc("\"s\"")

PArray == Enc("[1]")

PNotJson == Enc("{oops")

PUnclassified == Enc("{\"x\":1}")

PStartT1 == Enc("{\"name\":\"f\",\"toolUseId\":\"t1\"}")

PBadInput == Enc("{\"input\":\"{\\\"a\\\":1\"}")

PStop == Enc("{\"stop\":true}")

PStartObjectName == Enc("{\"name\":{\"toString\":1},\"toolUseId\":\"t2\"}")

AnomalyPayloads ==
  {PNull, PNumber, PString, PArray, PNotJson, PUnclassified,
   PStartT1, PBadInput, PStop, PStartObjectName}

AnomalySegments == {Frame(<<>>, payload) : payload \in AnomalyPayloads} \cup {<<255>>}

MaxAnomalySegments == 3

InitAnomalies ==
  Start(SeqsUpTo(AnomalySegments, MaxAnomalySegments) \ {<<>>}, FALSE, DefaultTapes)

SpecAnomalies == InitAnomalies /\ [][Next]_vars

(***************************************************************************)
(* C3.  feed(), getToolCalls() and reset() never raise an error to the     *)
(* caller, for any byte input and any decoded payload.                     *)
(***************************************************************************)
C3_NeverRaises == ~raised


(***************************************************************************)
(* Tool-call streams, fed frame by frame: starts, argument fragments,      *)
(* a stop, and content in between.                                         *)
(***************************************************************************)
PStartT2 == Enc("{\"name\":\"g\",\"toolUseId\":\"t2\"}")

PInputOpen == Enc("{\"input\":\"{ \\\"a\\\":1\"}")

PInputClose == Enc("{\"input\":\"}\"}")

ToolPayloads == {PStartT1, PStartT2, PInputOpen, PInputClose, PStop, PContentA}

ToolSegments == {Frame(<<>>, payload) : payload \in ToolPayloads}

MaxToolSegments == 4

InitTools == Start(SeqsUpTo(ToolSegments, MaxToolSegments) \ {<<>>}, FALSE, DefaultTapes)

SpecTools == InitTools /\ [][Next]_vars

\* the payloads dispatched since construction or the last reset, in order
StepIndices == 1..Len(steps)

IsTruthyStop(i) == steps[i].type = "tool_stop" /\ Truthy(Get(steps[i].data, KeyStop))

\* the text of the string fragments of the tool_input payloads from..to
RECURSIVE Fragments(_, _)
Fragments(from, to) ==
  IF from > to THEN <<>>
  ELSE (IF steps[from].type = "tool_input" THEN Get(steps[from].data, KeyInput).s ELSE <<>>)
       \o Fragments(from + 1, to)

(***************************************************************************)
(* C4.  For a tool_start with toolUseId t, name n and no input, followed   *)
(* by tool_input payloads carrying string fragments f1..fk (no tool_start  *)
(* in between) and then a truthy tool_stop, exactly one record is          *)
(* appended to the finalized list: {id: t, name: n, arguments: A}, where   *)
(* A is the re-serialization of JSON.parse(f1 + ... + fk) when that        *)
(* concatenation parses, however the text was split into fragments.        *)
(***************************************************************************)
C4Case(i, j) ==
  /\ i < j
  /\ steps[i].type = "tool_start"
  /\ Get(steps[i].data, KeyToolUseId).t = "str"
  /\ Get(steps[i].data, KeyToolUseId).s # <<>>
  /\ Get(steps[i].data, KeyName).t = "str"
  /\ ~HasKey(steps[i].data, KeyInput)
  /\ ~Truthy(Get(steps[i].data, KeyStop))
  /\ IsTruthyStop(j)
  /\ \A k \in (i + 1)..(j - 1) :
       /\ steps[k].type # "tool_start"
       /\ ~IsTruthyStop(k)
       /\ steps[k].type = "tool_input" => Get(steps[k].data, KeyInput).t = "str"

C4Record(i, parsed) ==
  [id |-> Get(steps[i].data, KeyToolUseId), name |-> Get(steps[i].data, KeyName),
   arguments |-> JsonStringify(parsed.v)]

C4_FragmentsJoinedThenParsed ==
  ~queried =>
    \A i \in StepIndices : \A j \in StepIndices :
      (C4Case(i, j) /\ JsonParse(Fragments(i + 1, j - 1)).ok)
        => steps[j].post.toolCalls
             = steps[i].post.toolCalls
                 \o <<C4Record(i, JsonParse(Fragments(i + 1, j - 1)))>>

C4_Witness ==
  /\ ~queried
  /\ \E i \in StepIndices : \E j \in StepIndices :
       /\ C4Case(i, j) /\ j = i + 3
       /\ steps[i + 1].type = "tool_input" /\ steps[i + 2].type = "tool_input"
       /\ JsonParse(Fragments(i + 1, j - 1)).ok
       /\ toolCalls = <<[id |-> JStr(Enc("t1")), name |-> JStr(Enc("f")),
                        arguments |-> Enc("{\"a\":1}")]>>

(***************************************************************************)
(* C5.  When a tool_start for call B is processed while call A is still    *)
(* open, A is finalized and appended to the finalized list before B's      *)
(* accumulator is opened; A's arguments contain only the fragments         *)
(* received before B's tool_start, and every later tool_input fragment is  *)
(* appended to B only, so A precedes B in the finalized list.              *)
(***************************************************************************)
C5Case(j) == steps[j].type = "tool_start" /\ steps[j].pre.currentToolCall # JNull

\* the tool_start that opened the call open before step j
StartOf(j) == CHOOSE s \in 1..(j - 1) :
                /\ steps[s].type = "tool_start"
                /\ \A k \in (s + 1)..(j - 1) : steps[k].type # "tool_start"

RECURSIVE InputTexts(_, _)
InputTexts(from, to) ==
  IF from > to THEN <<>>
  ELSE (IF steps[from].type = "tool_input" THEN InputText(steps[from].data) ELSE <<>>)
       \o InputTexts(from + 1, to)

C5RecordOfA(j, s) ==
  [id |-> steps[s].post.currentToolCall.id,
   name |-> OrElse(Get(steps[s].data, KeyName), JStr(<<>>)),
   arguments |-> CanonicalArguments(InputText(steps[s].data) \o InputTexts(s + 1, j - 1))]

C5After(j, n, recordOfA) ==
  /\ Len(steps[j].post.toolCalls) >= n + 1
  /\ SubSeq(steps[j].post.toolCalls, 1, n + 1) = steps[j].pre.toolCalls \o <<recordOfA>>
  /\ IF Truthy(Get(steps[j].data, KeyStop))
     THEN /\ Len(steps[j].post.toolCalls) = n + 2
          /\ steps[j].post.currentToolCall = JNull
     ELSE /\ Len(steps[j].post.toolCalls) = n + 1
          /\ steps[j].post.currentToolCall # JNull
          /\ steps[j].post.currentToolCall.arguments = InputText(steps[j].data)
  /\ \A k \in (j + 1)..Len(steps) :
       /\ steps[k].post.toolCalls[n + 1] = recordOfA
       /\ steps[k].type = "tool_input" =>
            /\ steps[k].post.toolCalls = steps[k].pre.toolCalls
            /\ steps[k].pre.currentToolCall # JNull =>
                 steps[k].post.currentToolCall.arguments
                   = steps[k].pre.currentToolCall.arguments \o InputText(steps[k].data)

C5_OpenCallFinalizedBeforeNext ==
  ~queried =>
    \A j \in StepIndices :
      C5Case(j) => C5After(j, Len(steps[j].pre.toolCalls), C5RecordOfA(j, StartOf(j)))

C5_Witness ==
  /\ ~queried
  /\ Len(steps) = 4
  /\ steps[1].payload = PStartT1 /\ steps[2].payload = PInputOpen
  /\ steps[3].payload = PStartT2 /\ steps[4].payload = PInputClose
  /\ toolCalls = <<[id |-> JStr(Enc("t1")), name |-> JStr(Enc("f")),
                   arguments |-> EmptyObjectText]>>
  /\ currentToolCall = [id |-> JStr(Enc("t2")), name |-> JStr(Enc("g")),
                        arguments |-> Enc("}")]

(***************************************************************************)
(* C6.  Finalizing an accumulator whose accumulated argument text is       *)
(* blank or does not parse as JSON appends a record with the               *)
(* accumulator's id and name and arguments exactly "{}"; the record is     *)
(* still appended and no error is raised.                                  *)
(***************************************************************************)
Unusable(text) == IsBlank(text) \/ ~JsonParse(text).ok

Finalizes(i) ==
  /\ steps[i].pre.currentToolCall # JNull
  /\ steps[i].type = "tool_start" \/ IsTruthyStop(i)

EmptyRecord(open) == [id |-> open.id, name |-> open.name, arguments |-> EmptyObjectText]

C6_UnusableArgumentsBecomeEmptyObject ==
  /\ \A i \in StepIndices :
       (Finalizes(i) /\ Unusable(steps[i].pre.currentToolCall.arguments))
         => /\ steps[i].caught = "none"
            /\ Len(steps[i].post.toolCalls) > Len(steps[i].pre.toolCalls)
            /\ SubSeq(steps[i].post.toolCalls, 1, Len(steps[i].pre.toolCalls) + 1)
                 = steps[i].pre.toolCalls \o <<EmptyRecord(steps[i].pre.currentToolCall)>>
  /\ (/\ ret.op = "getToolCalls"
      /\ ret.pre.currentToolCall # JNull
      /\ Unusable(ret.pre.currentToolCall.arguments))
       => /\ ~raised
          /\ ret.handed = ret.pre.toolCalls \o <<EmptyRecord(ret.pre.currentToolCall)>>

C6_Witness ==
  /\ ~raised
  /\ \E i \in StepIndices : \E j \in StepIndices :
       /\ Finalizes(i) /\ IsBlank(steps[i].pre.currentToolCall.arguments)
       /\ Finalizes(j) /\ ~IsBlank(steps[j].pre.currentToolCall.arguments)
       /\ ~JsonParse(steps[j].pre.currentToolCall.arguments).ok
       /\ Len(steps[j].post.toolCalls) = 2

(***************************************************************************)
(* C7.  If getToolCalls() is called while a tool-call accumulator is open, *)
(* the open call is finalized first and is part of the list handed to      *)
(* deduplication, and after the call returns no accumulator is open.       *)
(***************************************************************************)
C7Record(open) ==
  [id |-> open.id, name |-> open.name, arguments |-> CanonicalArguments(open.arguments)]

C7_GetToolCallsFinalizesOpenCall ==
  (ret.op = "getToolCalls" /\ ret.pre.currentToolCall # JNull)
    => /\ ret.handed = ret.pre.toolCalls \o <<C7Record(ret.pre.currentToolCall)>>
       /\ toolCalls = ret.handed
       /\ currentToolCall = JNull

C7_Witness ==
  /\ ret.op = "getToolCalls" /\ ~raised
  /\ ret.pre.currentToolCall # JNull
  /\ ret.pre.currentToolCall.arguments = Enc("{ \"a\":1}")
  /\ ret.value = <<[id |-> JStr(Enc("t1")), name |-> JStr(Enc("f")),
                   arguments |-> Enc("{\"a\":1}")]>>
  /\ currentToolCall = JNull


(***************************************************************************)
(* Content streams, fed frame by frame: text, text with a followupPrompt   *)
(* of each kind, usage, and a tool call that opens and stops.              *)
(***************************************************************************)
PFollowupText == Enc("{\"content\":\"a\",\"followupPrompt\":\"q\"}")

PFollowupEmpty == Enc("{\"content\":\"b\",\"followupPrompt\":\"\"}")

PFollowupNull == Enc("{\"content\":\"a\",\"followupPrompt\":null}")

PFollowupFalse == Enc("{\"content\":\"b\",\"followupPrompt\":false}")

PFollowupZero == Enc("{\"content\":\"a\",\"followupPrompt\":0}")

ContentPayloads ==
  {PContentA, PContentB, PUsage, PStartT1, PStop,
   PFollowupText, PFollowupEmpty, PFollowupNull, PFollowupFalse, PFollowupZero}

ContentSegments == {Frame(<<>>, payload) : payload \in ContentPayloads}

MaxContentSegments == 3

InitContent ==
  Start(SeqsUpTo(ContentSegments, MaxContentSegments) \ {<<>>}, FALSE, DefaultTapes)

SpecContent == InitContent /\ [][Next]_vars

(***************************************************************************)
(* C8.  After every feed call, isComplete() returns true if and only if a  *)
(* usage payload has been processed since construction (or the last        *)
(* reset) and no tool-call accumulator is currently open.                  *)
(***************************************************************************)
\* a usage payload, by its keys: `usage` and no key of an earlier rule
IsUsagePayload(i) ==
  /\ steps[i].caught = "none"
  /\ steps[i].data.t = "obj"
  /\ HasKey(steps[i].data, KeyUsage)
  /\ \A key \in {KeyContent, KeyName, KeyInput, KeyStop, KeyFollowupPrompt} :
       ~HasKey(steps[i].data, key)

C8_CompleteIffUsageSeenAndNoOpenCall ==
  ret.op = "feed" =>
    (isComplete(Parser) <=> /\ \E i \in 1..Len(steps) : IsUsagePayload(i)
                            /\ currentToolCall = JNull)

\* usage arrived while a call was open, and the call was stopped afterwards
C8_Witness ==
  /\ ret.op = "feed"
  /\ Len(steps) = 3
  /\ steps[1].payload = PStartT1 /\ steps[2].payload = PUsage /\ steps[3].payload = PStop
  /\ steps[2].post.receivedUsage /\ steps[2].post.currentToolCall # JNull
  /\ isComplete(Parser)

(***************************************************************************)
(* C9.  Two consecutive content payloads carrying identical text yield     *)
(* exactly one content event: the second is suppressed, whether the two    *)
(* payloads arrive in the same feed call or in different feed calls.       *)
(***************************************************************************)
\* a content payload whose content is a text and that is not marked as a
\* followup prompt
IsTextPayload(i) ==
  /\ steps[i].type = "content"
  /\ Get(steps[i].data, KeyContent).t = "str"
  /\ ~Truthy(Get(steps[i].data, KeyFollowupPrompt))

C9Case(i) ==
  /\ IsTextPayload(i) /\ IsTextPayload(i + 1)
  /\ Get(steps[i].data, KeyContent) = Get(steps[i + 1].data, KeyContent)

C10_FollowupPromptNeverContent ==
  \A i \in 1..Len(steps) :
    (/\ steps[i].data.t = "obj"
     /\ HasKey(steps[i].data, KeyContent)
     /\ HasKey(steps[i].data, KeyFollowupPrompt))
      => steps[i].event = NoEvent


(***************************************************************************)
(* Streams that need resynchronisation, fed byte by byte: stray bytes and  *)
(* length fields out of range in front of and between well-formed frames.  *)
(***************************************************************************)
TooLongLengthField == <<0, 15, 66, 65>>

TooShortLengthField == <<0, 0, 0, 15>>

ResyncSegments ==
  {<<255>>, TooLongLengthField, TooShortLengthField,
   Frame(<<>>, PContentA), Frame(<<7, 7>>, PContentB)}

MaxResyncSegments == 2

InitResync ==
  Start(SeqsUpTo(ResyncSegments, MaxResyncSegments) \ {<<>>}, TRUE, DefaultTapes)

SpecResync == InitResync /\ [][NextFresh]_vars

\* the length the four bytes at an offset encode, as an unsigned number, is
\* below 16 or above 1,000,000
LengthOutOfRange(buffer, offset) ==
  \/ buffer[offset + 1] >= 128
  \/ buffer[offset + 1] * 16777216 + buffer[offset + 2] * 65536
       + buffer[offset + 3] * 256 + buffer[offset + 4] < 16
  \/ buffer[offset + 1] * 16777216 + buffer[offset + 2] * 65536
       + buffer[offset + 3] * 256 + buffer[offset + 4] > 1000000

(***************************************************************************)
(* C11.  Whenever the 4 bytes at the decoder's scan offset encode a total  *)
(* length below 16 or above 1,000,000, the decoder advances the scan       *)
(* offset by exactly one byte and produces no payload or event from a      *)
(* frame starting at that offset: in every feed call, scanning the merged  *)
(* buffer from such an offset gives what scanning from the next byte gives.*)
(***************************************************************************)
ResyncsByOneByte(merged) ==
  \A offset \in 0..(Len(merged) - PreludeLen) :
    LengthOutOfRange(merged, offset)
      => Scan(merged, offset, <<>>) = Scan(merged, offset + 1, <<>>)

C11_OutOfRangeLengthSkipsOneByte ==
  [][sent' > sent => ResyncsByOneByte(rawBuffer \o SubSeq(wire, 1, sent' - sent))]_vars

\* a stray byte and a length field above the limit were skipped, and the
\* frame behind them was decoded
C11_Witness ==
  /\ body = <<TooLongLengthField, Frame(<<>>, PContentA)>>
  /\ wire = <<>>
  /\ DecodedTexts = <<PContentA>>
  /\ rawBuffer = <<>>


(***************************************************************************)
(* Streams of tool calls that arrive complete in one payload (a            *)
(* tool_start with stop), with ids, names and arguments that repeat.       *)
(***************************************************************************)
PCallT1Empty == Enc("{\"name\":\"f\",\"toolUseId\":\"t1\",\"stop\":true}")

PCallT1Short == Enc("{\"name\":\"f\",\"toolUseId\":\"t1\",\"input\":{\"a\":1},\"stop\":true}")

PCallT1Other == Enc("{\"name\":\"f\",\"toolUseId\":\"t1\",\"input\":{\"b\":2},\"stop\":true}")

PCallT1Long == Enc("{\"name\":\"f\",\"toolUseId\":\"t1\",\"input\":{\"a\":12},\"stop\":true}")

PCallT2Short == Enc("{\"name\":\"f\",\"toolUseId\":\"t2\",\"input\":{\"a\":1},\"stop\":true}")

PCallT2Named == Enc("{\"name\":\"g\",\"toolUseId\":\"t2\",\"input\":{\"a\":1},\"stop\":true}")

PCallT2Empty == Enc("{\"name\":\"f\",\"toolUseId\":\"t2\",\"stop\":true}")

PCallT3Negative == Enc("{\"name\":\"f\",\"toolUseId\":\"t3\",\"input\":\"-1\",\"stop\":true}")

PCallT4Dash == Enc("{\"name\":\"f-\",\"toolUseId\":\"t4\",\"input\":1,\"stop\":true}")

DedupPayloads ==
  {PCallT1Empty, PCallT1Short, PCallT1Other, PCallT1Long,
   PCallT2Short, PCallT2Named, PCallT2Empty, PCallT3Negative, PCallT4Dash}

DedupSegments == {Frame(<<>>, payload) : payload \in DedupPayloads}

MaxDedupSegments == 3

InitDedup == Start(SeqsUpTo(DedupSegments, MaxDedupSegments) \ {<<>>}, FALSE, DefaultTapes)

SpecDedup == InitDedup /\ [][NextFresh]_vars

\* getToolCalls() has just returned
Returns == ret.op = "getToolCalls" /\ ~raised

WithId(calls, id) == {i \in 1..Len(calls) : calls[i].id = id}

FirstIndex(calls, id) == CHOOSE i \in WithId(calls, id) : \A j \in WithId(calls, id) : i <= j

RealWithId(calls, id) == {i \in WithId(calls, id) : calls[i].arguments # EmptyObjectText}

\* the record the claim prefers for an id: the longest real one, the
\* earliest on equal length; the first one when all are placeholders
CandidateIndex(calls, id) ==
  IF RealWithId(calls, id) = {} THEN FirstIndex(calls, id)
  ELSE CHOOSE i \in RealWithId(calls, id) :
         \A j \in RealWithId(calls, id) :
           /\ Len(calls[j].arguments) <= Len(calls[i].arguments)
           /\ Len(calls[j].arguments) = Len(calls[i].arguments) => i <= j

(***************************************************************************)
(* C12.  Deduplication keeps at most one record per id, and for each id    *)
(* the candidate kept is a record whose arguments are not "{}" if any      *)
(* record with that id has such arguments, and among those the one with    *)
(* the longest arguments text (the earliest on equal length), in either    *)
(* order of placeholder and real record.                                   *)
(***************************************************************************)
C12_OnePerIdLongestReal ==
  Returns =>
    /\ \A a \in 1..Len(ret.value) : \A b \in 1..Len(ret.value) :
         a # b => ret.value[a].id # ret.value[b].id
    /\ \A a \in 1..Len(ret.value) :
         ret.value[a] = ret.handed[CandidateIndex(ret.handed, ret.value[a].id)]

C12_Witness ==
  /\ Returns
  /\ Len(ret.handed) = 3
  /\ ret.handed[1].arguments = EmptyObjectText
  /\ ret.handed[2].arguments = Enc("{\"a\":12}")
  /\ ret.handed[3].arguments = Enc("{\"b\":2}")
  /\ ret.value = <<ret.handed[2]>>

(***************************************************************************)
(* C13.  The records returned by deduplication appear in the order in      *)
(* which their ids first occur in the finalized list (also when a later    *)
(* record with the same id replaced the first one), and no returned        *)
(* record has an empty or missing id.                                      *)
(***************************************************************************)
C13_OrderOfFirstOccurrence ==
  Returns =>
    /\ \A a \in 1..Len(ret.value) : \A b \in 1..Len(ret.value) :
         a < b => FirstIndex(ret.handed, ret.value[a].id)
                    < FirstIndex(ret.handed, ret.value[b].id)
    /\ \A a \in 1..Len(ret.value) : Truthy(ret.value[a].id)

C13_Witness ==
  /\ Returns
  /\ Len(ret.handed) = 3
  /\ ret.handed[1].id = ret.handed[3].id
  /\ ret.handed[1].arguments = EmptyObjectText
  /\ ret.value = <<ret.handed[3], ret.handed[2]>>

(***************************************************************************)
(* C14.  In deduplication pass 2, a record that survived pass 1 is dropped *)
(* if and only if an earlier kept record has exactly the same name and     *)
(* exactly the same arguments; two records that differ in name or in       *)
(* arguments are both kept.                                                *)
(***************************************************************************)
\* the survivors of pass 1, in the order of first occurrence of their ids
RECURSIVE Candidates(_, _)
Candidates(calls, i) ==
  IF i > Len(calls) THEN <<>>
  ELSE (IF Truthy(calls[i].id) /\ i = FirstIndex(calls, calls[i].id)
        THEN <<calls[CandidateIndex(calls, calls[i].id)]>>
        ELSE <<>>)
       \o Candidates(calls, i + 1)

RECURSIVE WithoutExactPairs(_, _, _)
WithoutExactPairs(candidates, k, kept) ==
  IF k > Len(candidates) THEN kept
  ELSE IF \E j \in 1..Len(kept) : /\ kept[j].name = candidates[k].name
                                  /\ kept[j].arguments = candidates[k].arguments
  THEN WithoutExactPairs(candidates, k + 1, kept)
  ELSE WithoutExactPairs(candidates, k + 1, Append(kept, candidates[k]))

C14_DroppedIffSameNameAndArguments ==
  Returns => ret.value = WithoutExactPairs(Candidates(ret.handed, 1), 1, <<>>)


(***************************************************************************)
(* Tool calls fed byte by byte, so that getToolCalls() is also called      *)
(* with part of a frame in the byte buffer.                                *)
(***************************************************************************)
QuerySegments == {Frame(<<>>, PStartT1), Frame(<<>>, PStop), Frame(<<>>, PCallT1Short)}

MaxQuerySegments == 2

InitQuery == Start(SeqsUpTo(QuerySegments, MaxQuerySegments) \ {<<>>}, TRUE, DefaultTapes)

SpecQuery == InitQuery /\ [][NextFresh]_vars

(***************************************************************************)
(* C15.  getToolCalls() is idempotent after its first call: with no feed   *)
(* or reset in between, every later call returns a list equal to the       *)
(* first call's result and changes no parser state (finalized list,        *)
(* accumulator, lastContent, byte buffer).                                 *)
(***************************************************************************)
C15_GetToolCallsIdempotent ==
  (Returns /\ ret.again) =>
    /\ ret.value = ret.previous
    /\ View(Parser) = ret.pre
    /\ rawBuffer = ret.buffer

\* a second call in a row, with an open call finalized by the first and
\* part of the next frame in the buffer
C15_Witness ==
  /\ Returns /\ ret.again
  /\ rawBuffer # <<>>
  /\ Len(steps) = 1 /\ steps[1].payload = PStartT1
  /\ Len(ret.value) = 1 /\ ret.value = ret.previous
  /\ toolCalls = ret.handed


(***************************************************************************)
(* Streams fed byte by byte to a parser that is reset at any point, also   *)
(* in the middle of a frame.                                               *)
(***************************************************************************)
ResetSegments == {Frame(<<>>, PContentA), Frame(<<>>, PUsage), Frame(<<>>, PStartT1)}

MaxResetSegments == 2

InitReset == Start(SeqsUpTo(ResetSegments, MaxResetSegments) \ {<<>>}, TRUE, DefaultTapes)

SpecReset == InitReset /\ [][Next]_vars

(***************************************************************************)
(* C16.  After reset(), the parser is observationally equal to a newly     *)
(* constructed one: buffered partial-frame bytes, lastContent, the open    *)
(* accumulator, the finalized list and the completion state are all        *)
(* cleared, so any subsequent sequence of feed calls yields the same       *)
(* events, isComplete() values and getToolCalls() result as on a fresh     *)
(* instance.  `fed` and `emitted` are the bytes fed and the events         *)
(* returned since the reset.                                               *)
(***************************************************************************)
SameAsFresh(fresh) ==
  /\ emitted = fresh.events
  /\ rawBuffer = fresh.p.rawBuffer
  /\ View(Parser) = View(fresh.p)
  /\ isComplete(Parser) = isComplete(fresh.p)
  /\ GetToolCallsOp(Parser).value = GetToolCallsOp(fresh.p).value

C16_ResetEqualsFresh ==
  (resets > 0 /\ ~queried /\ ~raised) => SameAsFresh(FeedOp(NewParser(0), fed))

\* reset in the middle of the first frame, behind its prelude, after which
\* the second frame is decoded from the bytes that follow
C16_Witness ==
  /\ resets = 1 /\ ~queried /\ ret.op = "feed"
  /\ body = <<Frame(<<>>, PStartT1), Frame(<<>>, PContentA)>>
  /\ wire = <<>>
  /\ Len(fed) = Len(Flatten(body)) - PreludeLen
  /\ emitted = <<Event("content", JStr(Enc("a")))>>
  /\ currentToolCall = JNull


(***************************************************************************)
(* Payloads that satisfy several rules of the classifier, or none.         *)
(***************************************************************************)
PContentName == Enc("{\"content\":\"a\",\"name\":\"f\"}")

PInputStop == Enc("{\"input\":\"x\",\"stop\":true}")

PFollowupUsage == Enc("{\"followupPrompt\":\"q\",\"usage\":1}")

PUsageContext == Enc("{\"usage\":1,\"contextUsagePercentage\":2}")

PContext == Enc("{\"contextUsagePercentage\":2}")

ClassifyPayloads ==
  {PContentName, PCallT1Empty, PInputStop, PFollowupUsage, PUsageContext,
   PContext, PUnclassified, PStop, PUsage}

ClassifySegments == {Frame(<<>>, payload) : payload \in ClassifyPayloads}

MaxClassifySegments == 2

InitClassify ==
  Start(SeqsUpTo(ClassifySegments, MaxClassifySegments) \ {<<>>}, FALSE, DefaultTapes)

SpecClassify == InitClassify /\ [][Next]_vars

\* the rules in their order: the key that is looked for and the kind
RuleKeys ==
  <<KeyContent, KeyName, KeyInput, KeyStop, KeyFollowupPrompt, KeyUsage, KeyContextUsage>>

RuleKinds ==
  <<"content", "tool_start", "tool_input", "tool_stop", "followup", "usage", "context_usage">>

MatchingRules(data) == {r \in 1..Len(RuleKeys) : HasKey(data, RuleKeys[r])}

FirstMatchingKind(data) ==
  IF MatchingRules(data) = {} THEN "null"
  ELSE RuleKinds[CHOOSE r \in MatchingRules(data) : \A q \in MatchingRules(data) : r <= q]

(***************************************************************************)
(* C17.  The classifier returns the kind of the first matching rule in     *)
(* the order content, name (tool_start), input without name (tool_input),  *)
(* stop without name (tool_stop), followupPrompt, usage,                   *)
(* contextUsagePercentage, and no event when no key matches.               *)
(***************************************************************************)
C17_FirstMatchingRuleWins ==
  \A i \in 1..Len(steps) :
    steps[i].data.t = "obj" =>
      /\ steps[i].type = FirstMatchingKind(steps[i].data)
      /\ steps[i].type = "null" => steps[i].event = NoEvent

C17_Witness ==
  /\ Len(steps) = 2
  /\ steps[1].payload = PContentName /\ steps[1].type = "content"
  /\ steps[2].payload = PFollowupUsage /\ steps[2].type = "followup"
  /\ emitted = <<Event("content", JStr(Enc("a")))>>


(***************************************************************************)
(* C18.  The events returned by feed calls, concatenated in call order,    *)
(* appear in the same order as the frames that produced them appear in     *)
(* the input byte stream; no event is emitted before an event from an      *)
(* earlier frame.                                                          *)
(***************************************************************************)
\* the number of frames of the stream that have been fed
FramesFed == Cardinality({cut \in cuts : cut <= sent})

ContentPayloadOf(segment) ==
  CHOOSE payload \in ContentPayloads : Frame(<<>>, payload) = segment

\* the events of the payloads from..Len(steps), in the order of the payloads
RECURSIVE EventsOfSteps(_)
EventsOfSteps(from) ==
  IF from > Len(steps) THEN <<>>
  ELSE (IF steps[from].event # NoEvent THEN <<steps[from].event>> ELSE <<>>)
       \o EventsOfSteps(from + 1)

C18_EventsInFrameOrder ==
  ~raised =>
    /\ \A k \in 1..Len(steps) :
         steps[k].payload = ContentPayloadOf(body[FramesFed - Len(steps) + k])
    /\ emitted = EventsOfSteps(1)

\* three frames with an event each, the last two fed in one call
C18_Witness ==
  /\ body = <<Frame(<<>>, PContentB), Frame(<<>>, PContentA), Frame(<<>>, PUsage)>>
  /\ wire = <<>> /\ resets = 0
  /\ ret.op = "feed"
  /\ ret.value = <<Event("content", JStr(Enc("a"))), Event("usage", JNum(1))>>
  /\ emitted = <<Event("content", JStr(Enc("b")))>> \o ret.value


(***************************************************************************)
(* C19.  After every feed call the retained byte buffer holds no complete  *)
(* frame at its decode position: it is empty, or shorter than 12 bytes,    *)
(* or it begins with a length field in [16, 1,000,000] that is larger      *)
(* than the number of retained bytes; and the retained buffer is always a  *)
(* suffix of all bytes fed so far.                                         *)
(***************************************************************************)
DeclaredLength(buffer) ==
  buffer[1] * 16777216 + buffer[2] * 65536 + buffer[3] * 256 + buffer[4]

IsSuffix(tail, whole) ==
  /\ Len(tail) <= Len(whole)
  /\ tail = SubSeq(whole, Len(whole) - Len(tail) + 1, Len(whole))

C19_NoCompleteFrameRetained ==
  ret.op = "feed" =>
    /\ \/ rawBuffer = <<>>
       \/ Len(rawBuffer) < 12
       \/ /\ ~LengthOutOfRange(rawBuffer, 0)
          /\ DeclaredLength(rawBuffer) > Len(rawBuffer)
    /\ IsSuffix(rawBuffer, fed)

\* a stray byte was dropped and the first 19 bytes of a frame are retained
C19_Witness ==
  /\ ret.op = "feed"
  /\ body = <<<<255>>, Frame(<<>>, PContentA)>>
  /\ Len(fed) = 20
  /\ rawBuffer = SubSeq(fed, 2, 20)
  /\ DeclaredLength(rawBuffer) = 31


(***************************************************************************)
(* C20.  Every record in the finalized tool-call list has arguments that   *)
(* are the text of a syntactically valid JSON object, for every input the  *)
(* accumulator can receive (including a tool_start or tool_input whose     *)
(* input is a number, a string such as "5" or "[1]", or an array).         *)
(***************************************************************************)
IsJsonObjectText(text) == JsonParse(text).ok /\ JsonParse(text).v.t = "obj"

C20_ArgumentsAreJsonObjects ==
  \A i \in 1..Len(toolCalls) : IsJsonObjectText(toolCalls[i].arguments)


(***************************************************************************)
(* The steps of the makeKiroRequest calls, of the auth endpoint, of the    *)
(* Kiro API, of the user of Kiro and of the clock.                         *)
(***************************************************************************)
SetManager(m) ==
  /\ refreshToken' = m.refreshToken
  /\ accessToken' = m.accessToken
  /\ expiresAt' = m.expiresAt
  /\ refreshPromise' = m.refreshPromise

\* what a step of call i leaves behind
Effect(i, e) ==
  /\ SetManager(e.m)
  /\ refreshes' = e.log
  /\ requests' = [requests EXCEPT ![i] = e.c]
  /\ UNCHANGED <<kiroDb, now, statuses, answers, logins>>
  /\ UNCHANGED <<parserVars, streamVars, converterVars>>

\* history: the database and the manager as a call finds them
AtCall ==
  [db |-> kiroDb, held |-> refreshToken, cached |-> accessToken,
   pending |-> refreshPromise, expires |-> expiresAt, clock |-> now]

\* the next call of makeKiroRequest is made, and runs up to its first await
MakeKiroRequest ==
  \E i \in DOMAIN requests :
    /\ requests[i].pc = "idle"
    /\ \A j \in 1..(i - 1) : requests[j].pc # "idle"
    /\ Effect(i, LoopHead([requests[i] EXCEPT !.atCall = AtCall], Manager,
                          refreshes, kiroDb, now))

\* the calls waiting for the k-th refresh go on, up to their fetch
ResumedAll(waiting, k, m, refresh) ==
  [i \in DOMAIN waiting |->
     IF waiting[i].pc = "awaitRefresh" /\ waiting[i].awaits = k
     THEN Resumed(waiting[i], m, refresh)
     ELSE waiting[i]]

\* the auth endpoint answers the pending refresh (or refreshTokenRequest()
\* has thrown), the finally of line 211 runs, and the calls waiting in
\* getAccessToken() go on: the continuations of a settled promise run
\* before the next response or timer is handled
RefreshSettles ==
  \E k \in DOMAIN refreshes, answer \in answers :
    /\ refreshes[k].state = "pending"
    /\ SetManager(RefreshSettled(Manager, k, refreshes[k], answer, now))
    /\ refreshes' = [refreshes EXCEPT ![k] = RefreshOutcome(@, answer)]
    /\ requests' = ResumedAll(requests, k,
                              RefreshSettled(Manager, k, refreshes[k], answer, now),
                              RefreshOutcome(refreshes[k], answer))
    /\ UNCHANGED <<kiroDb, now, statuses, answers, logins>>
    /\ UNCHANGED <<parserVars, streamVars, converterVars>>

\* the Kiro API answers the fetch of a call
ApiResponds ==
  \E i \in DOMAIN requests, status \in statuses :
    /\ requests[i].pc = "fetching"
    /\ Effect(i, [m |-> Manager, log |-> refreshes,
                  c |-> Received(requests[i], status, Settled(refreshes))])

\* res.text() settles and the call goes on, up to its next await
BodyRead ==
  \E i \in DOMAIN requests :
    /\ requests[i].pc = "readingBody"
    /\ Effect(i, AfterBody(requests[i], Manager, refreshes, kiroDb, now))

\* the delay of line 65 has passed
BackoffElapses ==
  \E i \in DOMAIN requests :
    /\ requests[i].pc = "backoff"
    /\ Effect(i, AfterBackoff(requests[i], Manager, refreshes, kiroDb, now))

MaxLogins == 1

\* the user signs in to another account in Kiro
KiroLogin ==
  /\ logins < MaxLogins
  /\ \E account \in Accounts \ {kiroDb} : kiroDb' = account
  /\ logins' = logins + 1
  /\ UNCHANGED <<refreshToken, accessToken, expiresAt, refreshPromise, now,
                 refreshes, requests, statuses, answers>>
  /\ UNCHANGED <<parserVars, streamVars, converterVars>>

ClockStep == 1800000

MaxTicks == 2

\* half an hour passes
Tick ==
  /\ now < Epoch + MaxTicks * ClockStep
  /\ now' = now + ClockStep
  /\ UNCHANGED <<refreshToken, accessToken, expiresAt, refreshPromise, kiroDb,
                 refreshes, requests, statuses, answers, logins>>
  /\ UNCHANGED <<parserVars, streamVars, converterVars>>

\* an API that answers at once, and a clock that stands still
NextAuth ==
  \/ MakeKiroRequest
  \/ RefreshSettles
  \/ ApiResponds
  \/ BodyRead
  \/ KiroLogin

NextGateway ==
  \/ MakeKiroRequest
  \/ RefreshSettles
  \/ ApiResponds
  \/ BodyRead
  \/ BackoffElapses
  \/ KiroLogin
  \/ Tick

\* no parser is at work while the calls are made
IdleParser ==
  /\ rawBuffer = <<>>
  /\ lastContent = JNull
  /\ currentToolCall = JNull
  /\ toolCalls = <<>>
  /\ receivedUsage = FALSE
  /\ idCount = 0
  /\ idTape = <<>>
  /\ body = <<>>
  /\ wire = <<>>
  /\ cuts = {}
  /\ sent = 0
  /\ fed = <<>>
  /\ emitted = <<>>
  /\ steps = <<>>
  /\ ret = [op |-> "new"]
  /\ raised = FALSE
  /\ queried = FALSE
  /\ resets = 0
  /\ NoStream

(***************************************************************************)
(* Two concurrent calls against an API that accepts or rejects the token.  *)
(***************************************************************************)
MaxCalls == 2

AuthStatuses == {200, 403}

AuthAnswers == {"ok", "rotated", "refused"}

InitAuth ==
  /\ IdleParser
  /\ NewGateway(MaxCalls, AuthStatuses, AuthAnswers, {NoToken, FirstAccount})
  /\ NoConversion

SpecAuth == InitAuth /\ [][NextAuth]_vars

(***************************************************************************)
(* One call at a time against an API that answers with every kind of       *)
(* status.                                                                 *)
(***************************************************************************)
RetryStatuses == {200, 400, 403, 429, 500}

InitRetry ==
  /\ IdleParser
  /\ NewGateway(1, RetryStatuses, RefreshAnswers, {NoToken, FirstAccount})
  /\ NoConversion

SpecRetry == InitRetry /\ [][NextGateway]_vars

(***************************************************************************)
(* C21.  When the refresh token in Kiro's database differs from the one    *)
(* the manager holds, the next getAccessToken() call discards the cached   *)
(* access token and returns an access token obtained by a refresh request  *)
(* made with the new refresh token, also when a refresh request made with  *)
(* the old refresh token is in flight at that moment.                      *)
(***************************************************************************)
\* call i found another account in the database, and its getAccessToken()
\* has returned
AccountChanged(i) ==
  /\ requests[i].atCall.db # NoToken
  /\ requests[i].atCall.db # requests[i].atCall.held
  /\ requests[i].attempts # <<>>

\* the token getAccessToken() returned to call i
FirstToken(i) == requests[i].attempts[1].token

C21_AccountChangeRefreshesWithNewToken ==
  \A i \in DOMAIN requests :
    AccountChanged(i) =>
      /\ FirstToken(i) # requests[i].atCall.cached
      /\ refreshes[FirstToken(i)].sent = requests[i].atCall.db

(***************************************************************************)
(* C22.  makeKiroRequest performs at most 3 fetch attempts per request and *)
(* returns the first ok response; a 403, 429 or >= 500 response leads to   *)
(* the next attempt, any other status that is not ok throws at once with   *)
(* no further attempt, and after the third such failure the error of the   *)
(* last attempt is thrown.  (The next attempt begins with forceRefresh(),  *)
(* and ends there when no token can be obtained.)                          *)
(***************************************************************************)
TriedAgain(status) == status = 403 \/ status = 429 \/ status >= 500

\* the status the last fetch of a call was answered with, 0 while it is out
LastStatus(c) == c.attempts[Len(c.attempts)].status

FromApi(error) == error.msg \in {"Kiro API", "Kiro API error"}

C22Holds(c) ==
  /\ Len(c.attempts) <= 3
  /\ \A k \in 1..(Len(c.attempts) - 1) : TriedAgain(c.attempts[k].status)
  /\ c.pc = "returned" => c.attempts # <<>> /\ IsOk(LastStatus(c))
  /\ c.attempts # <<>> /\ c.pc \notin {"fetching", "readingBody", "backoff"} =>
       IF IsOk(LastStatus(c)) THEN c.pc = "returned"
       ELSE IF ~TriedAgain(LastStatus(c))
       THEN c.pc = "threw"
            /\ c.error = [msg |-> "Kiro API error", status |-> LastStatus(c)]
       ELSE IF Len(c.attempts) = 3
       THEN c.pc = "threw"
            /\ c.error = [msg |-> "Kiro API", status |-> LastStatus(c)]
       ELSE c.pc = "threw" => ~FromApi(c.error)

C22_AtMostThreeAttempts == \A i \in DOMAIN requests : C22Holds(requests[i])

\* three failures with three statuses, then the error of the last one; and
\* before that, nothing thrown
C22_Witness ==
  \E i \in DOMAIN requests :
    /\ requests[i].pc = "threw"
    /\ Len(requests[i].attempts) = 3
    /\ requests[i].attempts[1].status = 403
    /\ requests[i].attempts[2].status = 500
    /\ requests[i].attempts[3].status = 429
    /\ requests[i].error = [msg |-> "Kiro API", status |-> 429]

(***************************************************************************)
(* C23.  The attempt that follows a 403 response never reuses the rejected *)
(* access token: forceRefresh() clears the cached token and expiry, and    *)
(* the token sent on the retry is the result of a refresh request that     *)
(* completes after the 403 was received.                                   *)
(***************************************************************************)
\* the k-th fetch of call c was answered 403 and a fetch followed
RetriedAfter403(c, k) ==
  /\ k < Len(c.attempts)
  /\ c.attempts[k].status = 403

\* a call waits inside forceRefresh()
InForceRefresh ==
  \E i \in DOMAIN requests :
    requests[i].pc = "awaitRefresh" /\ requests[i].attempt >= 1

C23_RetryAfter403UsesFreshToken ==
  /\ \A i \in DOMAIN requests : \A k \in DOMAIN requests[i].attempts :
       RetriedAfter403(requests[i], k) =>
         /\ requests[i].attempts[k + 1].token # requests[i].attempts[k].token
         /\ requests[i].attempts[k + 1].token \notin requests[i].attempts[k].settled
         /\ refreshes[requests[i].attempts[k + 1].token].state = "ok"
  /\ InForceRefresh => accessToken = NoToken /\ expiresAt = NoTime

\* two calls were answered 403 with the same token and both retried with
\* the token of one later refresh
C23_Witness ==
  /\ DOMAIN requests = {1, 2}
  /\ RetriedAfter403(requests[1], 1)
  /\ RetriedAfter403(requests[2], 1)
  /\ requests[1].attempts[1].token = requests[2].attempts[1].token
  /\ requests[1].attempts[2].token = requests[2].attempts[2].token

(***************************************************************************)
(* doGenerate and doStream: the loop that reads the response body, feeds   *)
(* the parser and, in doStream, writes the output parts; then the tool     *)
(* calls and the finish.  The consumer of the output stream is taken to    *)
(* read it, so that writer.write() settles.                                *)
(***************************************************************************)
textId == Enc("text-0")

Part(type, id, name, data) == [type |-> type, id |-> id, name |-> name, data |-> data]

\* doStream, lines 232-247: the parts written for the events of one feed
RECURSIVE WriteEvents(_, _, _, _)
WriteEvents(events, i, started, written) ==
  IF i > Len(events) THEN [started |-> started, parts |-> written]
  ELSE IF events[i].type # "content"
  THEN WriteEvents(events, i + 1, started, written)
  ELSE WriteEvents(events, i + 1, TRUE,
         (IF started THEN written
          ELSE Append(written, Part("text-start", textId, Undefined, Undefined)))
         \o <<Part("text-delta", textId, Undefined, events[i].data)>>)

\* doGenerate, lines 137-141
RECURSIVE CollectText(_, _, _)
CollectText(events, i, texts) ==
  IF i > Len(events) THEN texts
  ELSE CollectText(events, i + 1,
                   IF events[i].type = "content" THEN Append(texts, events[i].data)
                   ELSE texts)

\* textParts.join("")
RECURSIVE JoinTexts(_, _)
JoinTexts(texts, i) ==
  IF i > Len(texts) THEN <<>>
  ELSE (IF texts[i].t \in {"null", "undefined"} THEN <<>> ELSE ToStr(texts[i]))
       \o JoinTexts(texts, i + 1)

\* doStream, lines 271-276
RECURSIVE ToolParts(_, _)
ToolParts(tcs, i) ==
  IF i > Len(tcs) THEN <<>>
  ELSE <<Part("tool-input-start", tcs[i].id, tcs[i].name, Undefined),
         Part("tool-input-delta", tcs[i].id, Undefined, tcs[i].arguments),
         Part("tool-input-end", tcs[i].id, Undefined, Undefined),
         Part("tool-call", tcs[i].id, tcs[i].name, tcs[i].arguments)>>
       \o ToolParts(tcs, i + 1)

\* mutant: the reason does not look at the tool calls
finishReasonAlwaysStop(tcs) == "stop"

\* lines 171 and 278
finishReason(tcs) == IF Len(tcs) > 0 THEN "tool-calls" ELSE "stop"

\* doStream, lines 267-283
FinishParts(started, tcs) ==
  (IF started THEN <<Part("text-end", textId, Undefined, Undefined)>> ELSE <<>>)
  \o ToolParts(tcs, 1)
  \o <<Part("finish", Undefined, Undefined, finishReason(tcs))>>

\* lines 79-88
toolCallsToContent(tcs) ==
  [i \in DOMAIN tcs |-> Part("tool-call", tcs[i].id, tcs[i].name, tcs[i].arguments)]

\* doGenerate, lines 155-182
Generated(fullText, tcs) ==
  [content |-> (IF fullText # <<>>
                THEN <<Part("text", Undefined, Undefined, fullText)>> ELSE <<>>)
               \o toolCallsToContent(tcs),
   finishReason |-> finishReason(tcs)]

\* the calls made on the parser for one chunk
Logged(r, made) == [p |-> r.p, events |-> r.events, log |-> r.log, made |-> made]

\* mutant: the tool calls are asked for after every chunk
ConsumeAskingEveryChunk(p, chunk) ==
  Logged([FeedOp(p, chunk) EXCEPT !.p = GetToolCallsOp(@).p],
         <<"feed", "getToolCalls">>)

\* lines 136 and 231: const events = parser.feed(value)
Consume(p, chunk) == Logged(FeedOp(p, chunk), <<"feed">>)

\* clearTimeout(idleTimer): a timer that has fired stays fired
Cleared(timer) == IF timer = "fired" THEN "fired" ELSE "cleared"

\* the loop is over: getToolCalls() with its result g, then the parts of
\* the finish and the close (doStream), or the result (doGenerate).  An
\* exception of getToolCalls() leaves the async function rejected.
Ended(g, started, written, texts, made, readerAfter, timerAfter) ==
  /\ SetParser(g.p)
  /\ queried' = TRUE
  /\ raised' = (g.threw # "none")
  /\ ret' = [op |-> "getToolCalls", threw |-> g.threw, handed |-> g.handed]
  /\ ops' = Append(made, "getToolCalls")
  /\ position' = IF g.threw # "none" THEN "rejected" ELSE "done"
  /\ textStartEmitted' = started
  /\ textParts' = texts
  /\ parts' = IF g.threw = "none" /\ mode = "stream"
              THEN written \o FinishParts(started, g.value) ELSE written
  /\ closed' = (g.threw = "none" /\ mode = "stream")
  /\ generated' = IF g.threw = "none" /\ mode = "generate"
                  THEN Generated(JoinTexts(texts, 1), g.value) ELSE NoResult
  /\ reader' = IF mode = "generate" THEN "released" ELSE readerAfter
  /\ idleTimer' = IF mode = "generate" THEN Cleared(idleTimer) ELSE timerAfter

\* the loop goes on: resetIdleTimer() has run, the next read() is pending
Continues(c, w, texts) ==
  /\ SetParser(c.p)
  /\ raised' = FALSE
  /\ ret' = [op |-> "feed", value |-> c.events]
  /\ ops' = ops \o c.made
  /\ textStartEmitted' = w.started
  /\ textParts' = texts
  /\ parts' = w.parts
  /\ idleTimer' = "armed"
  /\ UNCHANGED <<queried, position, closed, generated, reader>>

\* lines 134-146 and 229-255 for a chunk fed with result c: the parts w
\* (doStream) or the texts (doGenerate), then isComplete()
AfterFeed(c, w, texts) ==
  /\ steps' = steps \o c.log
  /\ emitted' = emitted \o c.events
  /\ IF isComplete(c.p)
     THEN Ended(GetToolCallsOp(c.p), w.started, w.parts, texts, ops \o c.made,
                "cancelled", "cleared")
     ELSE Continues(c, w, texts)

Written(events) ==
  IF mode = "stream" THEN WriteEvents(events, 1, textStartEmitted, parts)
  ELSE [started |-> FALSE, parts |-> <<>>]

Collected(events) ==
  IF mode = "generate" THEN CollectText(events, 1, textParts) ELSE <<>>

Chunk(c) == AfterFeed(c, Written(c.events), Collected(c.events))

\* reader.read() gives the next chunk, which ends at a cut
ReadChunk ==
  /\ position = "reading"
  /\ reader = "open"
  /\ \E cut \in {c \in cuts : c > sent} :
       /\ Chunk(Consume(Parser, SubSeq(wire, 1, cut - sent)))
       /\ wire' = SubSeq(wire, cut - sent + 1, Len(wire))
       /\ sent' = cut
       /\ fed' = fed \o SubSeq(wire, 1, cut - sent)
  /\ UNCHANGED <<idTape, body, cuts, resets, mode, keepsOpen>>
  /\ UNCHANGED <<authVars, converterVars>>

\* reader.read() gives done: the backend has closed the connection after
\* its data, or the reader was cancelled
ReadEnd ==
  /\ position = "reading"
  /\ reader = "cancelled" \/ (reader = "open" /\ wire = <<>> /\ ~keepsOpen)
  /\ Ended(GetToolCallsOp(Parser), textStartEmitted, parts, textParts, ops,
           IF reader = "open" THEN "closed" ELSE reader, Cleared(idleTimer))
  /\ UNCHANGED <<idTape, body, wire, cuts, sent, fed, emitted, steps, resets,
                 mode, keepsOpen>>
  /\ UNCHANGED <<authVars, converterVars>>

\* reader.read() rejects: the catch; doStream leaves its timer running
ReadFails ==
  /\ position = "reading"
  /\ reader = "open"
  /\ Ended(GetToolCallsOp(Parser), textStartEmitted, parts, textParts, ops,
           "errored", idleTimer)
  /\ UNCHANGED <<idTape, body, wire, cuts, sent, fed, emitted, steps, resets,
                 mode, keepsOpen>>
  /\ UNCHANGED <<authVars, converterVars>>

\* 15 s have passed without data: reader.cancel()
IdleTimeout ==
  /\ idleTimer = "armed"
  /\ idleTimer' = "fired"
  /\ reader' = IF reader = "open" THEN "cancelled" ELSE reader
  /\ UNCHANGED <<mode, position, keepsOpen, textStartEmitted, textParts, parts,
                 closed, generated, ops>>
  /\ UNCHANGED <<parserVars, authVars, converterVars>>

NextStream == ReadChunk \/ ReadEnd \/ ReadFails \/ IdleTimeout

(***************************************************************************)
(* Response bodies with text, a tool call, usage, and a tool call whose    *)
(* name is an object.                                                      *)
(***************************************************************************)
StreamPayloads == {PContentA, PStartT1, PStop, PUsage, PStartObjectName}

StreamSegments == {Frame(<<>>, payload) : payload \in StreamPayloads}

MaxStreamSegments == 3

InitStream ==
  /\ StartParser(SeqsUpTo(StreamSegments, MaxStreamSegments), FALSE, DefaultTapes)
  /\ NewGateway(0, {}, {}, {FirstAccount})
  /\ NewStream({"generate", "stream"})
  /\ NoConversion

SpecStream == InitStream /\ [][NextStream]_vars

\* timers fire, and a read() of a closed or cancelled body settles
SpecStreamFair ==
  InitStream /\ [][NextStream]_vars /\ WF_vars(IdleTimeout) /\ WF_vars(ReadEnd)

(***************************************************************************)
(* C24.  In doStream, if the backend stops sending data without closing    *)
(* the connection, the idle timer cancels the reader and the output        *)
(* stream eventually receives its finish part and is closed; the output    *)
(* stream never stays open forever, on any path (end of stream,            *)
(* completion signal, idle timeout, read error).                           *)
(***************************************************************************)
HasFinishPart == parts # <<>> /\ parts[Len(parts)].type = "finish"

C24_OutputStreamEventuallyCloses ==
  mode = "stream" => <>(closed /\ HasFinishPart)

(***************************************************************************)
(* C25.  In doGenerate and doStream, getToolCalls() is called exactly once *)
(* per request, and only after the last feed call, on every termination    *)
(* path (transport end-of-stream, isComplete() becoming true, idle-timeout *)
(* cancellation, read error); no feed call happens after it.               *)
(***************************************************************************)
Asked == {i \in DOMAIN ops : ops[i] = "getToolCalls"}

PStartStopOne == Enc("{\"name\":\"g\",\"toolUseId\":\"t3\",\"input\":\"7\",\"stop\":1}")

PStartZero == Enc("{\"name\":\"f\",\"toolUseId\":\"t2\",\"input\":0}")

PInputFalse == Enc("{\"input\":false}")

PInputObject == Enc("{\"input\":{\"b\":2}}")

PStopFalse == Enc("{\"stop\":false}")

CallPayloads ==
  {PStartT1, PCallT1Short, PStartStopOne, PStartZero, PInputOpen, PInputFalse,
   PInputObject, PStop, PStopFalse, PContentA}

CallSegments == {Frame(<<>>, payload) : payload \in CallPayloads}

MaxCallSegments == 3

InitCalls == Start(SeqsUpTo(CallSegments, MaxCallSegments) \ {<<>>}, FALSE, DefaultTapes)

SpecCalls == InitCalls /\ [][NextFresh]_vars

(***************************************************************************)
(* C26.  A tool_start payload that also carries a truthy stop field is     *)
(* finalized within the same dispatch: after it is processed its record,   *)
(* with the arguments derived from its own input field, is the last        *)
(* element of the finalized list and no accumulator is open.               *)
(***************************************************************************)
IsStartWithStop(i) ==
  /\ steps[i].type = "tool_start"
  /\ Truthy(Get(steps[i].data, KeyStop))

\* the record of the call a tool_start payload describes
OwnRecord(data) ==
  [id |-> Get(data, KeyToolUseId), name |-> Get(data, KeyName),
   arguments |-> CanonicalArguments(InputText(data))]

\* the finalized list grew by the call that was open, if any, and by one
Grown(i) ==
  Len(steps[i].pre.toolCalls)
    + (IF steps[i].pre.currentToolCall # JNull THEN 2 ELSE 1)

C26_StartWithStopFinalizedAtOnce ==
  \A i \in StepIndices :
    IsStartWithStop(i) =>
      /\ steps[i].post.currentToolCall = JNull
      /\ Len(steps[i].post.toolCalls) = Grown(i)
      /\ steps[i].post.toolCalls[Grown(i)] = OwnRecord(steps[i].data)

\* a call is open when a start with input "7" and stop 1 arrives
C26_Witness ==
  \E i \in StepIndices :
    /\ IsStartWithStop(i)
    /\ steps[i].payload = PStartStopOne
    /\ steps[i].pre.currentToolCall # JNull
    /\ steps[i].post.toolCalls[Grown(i)].arguments = Enc("7")

(***************************************************************************)
(* C27.  When no accumulator is open, a tool_input payload and a tool_stop *)
(* payload each leave the whole parser state unchanged (finalized list,    *)
(* accumulator, lastContent) and emit no event; likewise a tool_stop whose *)
(* stop value is falsy leaves an open accumulator open and unchanged.      *)
(***************************************************************************)
NothingOpen(i) == steps[i].pre.currentToolCall = JNull

IsFalsyStop(i) ==
  steps[i].type = "tool_stop" /\ ~Truthy(Get(steps[i].data, KeyStop))

NoOp(i) ==
  /\ steps[i].post = steps[i].pre
  /\ steps[i].event = NoEvent
  /\ steps[i].caught = "none"

C27_NoAccumulatorNoEffect ==
  \A i \in StepIndices :
    /\ (steps[i].type \in {"tool_input", "tool_stop"} /\ NothingOpen(i)) => NoOp(i)
    /\ IsFalsyStop(i) => NoOp(i)

\* after some text, an input fragment and a stop arrive with nothing open;
\* then a call starts and a stop with the value false leaves it open
C27_Witness ==
  /\ Len(steps) = 3
  /\ steps[1].type = "tool_input" /\ NothingOpen(1)
  /\ steps[2].type = "tool_start"
  /\ IsFalsyStop(3)
  /\ steps[3].post.currentToolCall # JNull

(***************************************************************************)
(* Bodies with payloads that are not JSON texts between payloads that      *)
(* are; a chunk may hold several frames.                                   *)
(***************************************************************************)
PCutShort == Enc("{\"content\":\"a\"")

SkipPayloads == {PNotJson, PCutShort, PContentA, PContentB, PStartT1, PStop}

SkipSegments == {Frame(<<>>, payload) : payload \in SkipPayloads}

MaxSkipSegments == 3

InitSkip ==
  Start(SeqsUpTo(SkipSegments, MaxSkipSegments) \ {<<>>}, FALSE, DefaultTapes)

SpecSkip == InitSkip /\ [][NextFresh]_vars

(***************************************************************************)
(* C28.  A payload that fails to parse as JSON is discarded without        *)
(* changing any parser state, and the payloads before and after it in the  *)
(* same feed call are still processed in order, with the same events and   *)
(* state changes as if the malformed payload were absent.                  *)
(***************************************************************************)
FailedToParse(i) == steps[i].caught = "SyntaxError"

IsWellFormed(entry) == entry.caught # "SyntaxError"

RECURSIVE PayloadsOf(_, _, _)
PayloadsOf(log, i, acc) ==
  IF i > Len(log) THEN acc
  ELSE PayloadsOf(log, i + 1, Append(acc, log[i].payload))

\* the same parser fed the well-formed payloads alone
WithoutMalformed(clean) ==
  ProcessPayloads(NewParser(0), PayloadsOf(clean, 1, <<>>), 1, <<>>, <<>>)

\* getToolCalls finalizes an open call, so the comparison is made on the
\* runs of feed calls alone
SameAsWithout(clean, r) ==
  ~queried => /\ r.log = clean
              /\ emitted = r.events
              /\ View(Parser) = View(r.p)
              /\ idCount = r.p.idCount

C28_MalformedPayloadSkipped ==
  /\ ~raised
  /\ \A i \in StepIndices :
       FailedToParse(i) => /\ steps[i].post = steps[i].pre
                           /\ steps[i].event = NoEvent
  /\ SameAsWithout(SelectSeq(steps, IsWellFormed),
                   WithoutMalformed(SelectSeq(steps, IsWellFormed)))

\* one feed call with a malformed payload between two content payloads
C28_Witness ==
  /\ Len(steps) = 3
  /\ FailedToParse(2)
  /\ ret.op = "feed" /\ ~raised
  /\ Len(ret.value) = 2
  /\ emitted = ret.value
  /\ steps[1].event # NoEvent /\ steps[3].event # NoEvent

(***************************************************************************)
(* C29.  The input text taken from a tool_start or tool_input payload is   *)
(* the JSON serialization of input when input is an object, the string     *)
(* form of input when input is present but not an object (0 gives "0",     *)
(* false gives "false"), and the empty text when input is absent.          *)
(***************************************************************************)
StatedInputText(data) ==
  IF ~HasKey(data, KeyInput) THEN <<>>
  ELSE IF IsObjectType(Get(data, KeyInput)) THEN JsonStringify(Get(data, KeyInput))
  ELSE ToStr(Get(data, KeyInput))

\* a tool_start that leaves its call open
OpensCall(i) ==
  steps[i].type = "tool_start" /\ steps[i].post.currentToolCall # JNull

\* a tool_input that finds a call open
ExtendsCall(i) ==
  steps[i].type = "tool_input" /\ steps[i].pre.currentToolCall # JNull

C29_InputTextByKindOfInput ==
  \A i \in StepIndices :
    /\ OpensCall(i) =>
         steps[i].post.currentToolCall.arguments = StatedInputText(steps[i].data)
    /\ ExtendsCall(i) =>
         steps[i].post.currentToolCall.arguments
           = steps[i].pre.currentToolCall.arguments \o StatedInputText(steps[i].data)

(***************************************************************************)
(* C30.  For every complete frame with valid total length, the             *)
(* headers-length field is read as an unsigned 32-bit integer and the      *)
(* bytes decoded as payload lie entirely inside that frame, within         *)
(* [offset+12, offset+totalLength-4); a headers length with its high bit   *)
(* set or larger than the frame yields no payload and never reads bytes    *)
(* before the frame or from another frame.                                 *)
(***************************************************************************)
FrameSegments ==
  WellFormedSegments
    \cup {FrameWith(HighBitHeadersLen, <<>>, PContentA),
          FrameWith(U32BE(100), <<>>, PContentA)}

AllFrames == \A i \in 1..Len(body) : body[i] \in FrameSegments

\* the first byte of an unsigned 32-bit field of 2^31 or more is 128 or more
HasHighBit(frame) == frame[5] >= 128

\* the payload region of a frame taken on its own, as stated
StatedRegion(frame) ==
  IF HasHighBit(frame) \/ ReadInt32BE(frame, 4) > Len(frame) THEN <<>>
  ELSE Slice(frame, PreludeLen + ReadInt32BE(frame, 4), Len(frame) - 4)

RECURSIVE StatedTexts(_, _, _)
StatedTexts(frames, i, texts) ==
  IF i > Len(frames) THEN texts
  ELSE StatedTexts(frames, i + 1,
                   IF IsBlank(Utf8Decode(StatedRegion(frames[i]))) THEN texts
                   ELSE Append(texts, Utf8Decode(StatedRegion(frames[i]))))

C30_PayloadInsideItsFrame ==
  (AllFrames /\ wire = <<>>) => DecodedTexts = StatedTexts(body, 1, <<>>)

(***************************************************************************)
(* The iterations of the while loop of extractJsonPayloads on a buffer:    *)
(* for each one the offset it starts at, what it does (skip a byte, take   *)
(* a frame, or break on an incomplete frame) and the offset it leaves.     *)
(***************************************************************************)
Iteration(kind, offset, totalLen, next) ==
  [kind |-> kind, offset |-> offset, totalLen |-> totalLen, next |-> next]

IterationAt(buf, offset, totalLen) ==
  IF totalLen < MinTotalLen \/ totalLen > MaxTotalLen
  THEN Iteration("skip", offset, totalLen, Resync(offset))
  ELSE IF offset + totalLen > Len(buf)
  THEN Iteration("break", offset, totalLen, offset)
  ELSE Iteration("frame", offset, totalLen, offset + totalLen)

RECURSIVE Iterations(_, _, _)
RECURSIVE AfterIteration(_, _, _)
Iterations(buf, offset, done) ==
  IF ~(offset + PreludeLen <= Len(buf)) THEN done
  ELSE AfterIteration(buf, done, IterationAt(buf, offset, ReadInt32BE(buf, offset)))

AfterIteration(buf, done, it) ==
  IF it.kind = "break" THEN Append(done, it)
  ELSE Iterations(buf, it.next, Append(done, it))

(***************************************************************************)
(* C31.  The frame decoder terminates on every finite buffer: each loop    *)
(* iteration either stops the scan or strictly increases the scan offset   *)
(* (by 1 on an implausible length, by totalLength >= 16 on a complete      *)
(* frame), and the offset never exceeds the buffer length.                 *)
(***************************************************************************)
Advances(it, size) ==
  /\ it.offset >= 0 /\ it.offset + PreludeLen <= size
  /\ it.kind = "skip" => it.next = it.offset + 1
  /\ it.kind = "frame" => /\ it.totalLen >= 16
                          /\ it.next = it.offset + it.totalLen
  /\ it.kind = "break" => it.next = it.offset
  /\ it.next <= size

ScanAdvances(its, size, final) ==
  /\ \A i \in 1..Len(its) : Advances(its[i], size)
  /\ \A i \in 1..(Len(its) - 1) :
       its[i].kind # "break" /\ its[i + 1].offset = its[i].next
  /\ Len(its) <= size
  /\ final = (IF its = <<>> THEN 0 ELSE its[Len(its)].next)
  /\ final <= size

C31_ScanTerminates ==
  ScanAdvances(Iterations(fed, 0, <<>>), Len(fed), Scan(fed, 0, <<>>).offset)

KindsOf(its) == {its[i].kind : i \in 1..Len(its)}

\* a stray byte is skipped, then a whole frame is taken, which ends the buffer
C31_WitnessOn(its) ==
  /\ KindsOf(its) = {"skip", "frame"}
  /\ its[1].kind = "skip"
  /\ its[Len(its)].next = Len(fed)

C31_Witness == C31_WitnessOn(Iterations(fed, 0, <<>>))

(***************************************************************************)
(* C32.  The finalized tool-call list is append-only: across any feed or   *)
(* getToolCalls call the list before the call is an element-wise equal     *)
(* prefix of the list after it; records already appended are never         *)
(* modified, reordered or removed, and only reset() empties the list.      *)
(***************************************************************************)
StartsWith(long, short) ==
  /\ Len(short) <= Len(long)
  /\ SubSeq(long, 1, Len(short)) = short

AppendOnlyStep ==
  IF resets' # resets THEN toolCalls' = <<>>
  ELSE StartsWith(toolCalls', toolCalls)

C32_FinalizedListAppendOnly == [][AppendOnlyStep]_vars

\* getToolCalls found one record in the list and a call open, and left two
C32_Witness ==
  /\ ret.op = "getToolCalls" /\ ~raised
  /\ Len(ret.pre.toolCalls) = 1
  /\ ret.pre.currentToolCall # JNull
  /\ Len(toolCalls) = 2
  /\ toolCalls[1] = ret.pre.toolCalls[1]

(***************************************************************************)
(* C33.  At most one token-refresh HTTP request is in flight per           *)
(* KiroAuthManager at any time: getAccessToken and forceRefresh calls      *)
(* arriving while a refresh is pending await that same refresh instead of  *)
(* starting another, and a new refresh can start only after the pending    *)
(* one has settled (successfully or with an error).                        *)
(***************************************************************************)
PendingRefreshes == {k \in 1..Len(refreshes) : refreshes[k].state = "pending"}

InFlight == {k \in PendingRefreshes : refreshes[k].http}

Waiting == {i \in 1..Len(requests) : requests[i].pc = "awaitRefresh"}

C33_OneRefreshInFlight ==
  /\ Cardinality(InFlight) <= 1
  /\ PendingRefreshes = (IF refreshPromise = NoPromise THEN {} ELSE {refreshPromise})
  /\ \A i \in Waiting : requests[i].awaits = refreshPromise /\ refreshPromise # NoPromise

\* two calls wait for the one refresh request that was sent
C33_Witness ==
  /\ Cardinality(Waiting) = 2
  /\ Len(refreshes) = 1
  /\ InFlight = {1}

(***************************************************************************)
(* C34.  Every output stream of doStream has this part order: text-start   *)
(* at most once and before any text-delta; text-end exactly once if and    *)
(* only if text-start was emitted, after the last text-delta; then for     *)
(* each deduplicated tool call, in order, tool-input-start,                *)
(* tool-input-delta, tool-input-end, tool-call; then exactly one finish    *)
(* part as the last part before the stream closes; no text-delta follows   *)
(* text-end.                                                               *)
(***************************************************************************)
\* the text of a stream that is still being written: nothing, or
\* text-start and then text-delta parts only
IsOpenText(ps) ==
  \A i \in 1..Len(ps) :
    ps[i].type = (IF i = 1 THEN "text-start" ELSE "text-delta")

\* a text-start, text-delta parts, a text-end; or nothing at all
IsClosedText(ps) ==
  \/ ps = <<>>
  \/ /\ Len(ps) >= 2
     /\ IsOpenText(SubSeq(ps, 1, Len(ps) - 1))
     /\ ps[Len(ps)].type = "text-end"

\* the four parts of the j-th tool call, after `before` text parts
IsToolGroup(ps, before, j, tc) ==
  /\ ps[before + 4 * j - 3] = Part("tool-input-start", tc.id, tc.name, Undefined)
  /\ ps[before + 4 * j - 2] = Part("tool-input-delta", tc.id, Undefined, tc.arguments)
  /\ ps[before + 4 * j - 1] = Part("tool-input-end", tc.id, Undefined, Undefined)
  /\ ps[before + 4 * j] = Part("tool-call", tc.id, tc.name, tc.arguments)

IsWholeStream(ps, tcs, before) ==
  /\ before >= 0
  /\ IsClosedText(SubSeq(ps, 1, before))
  /\ \A j \in 1..Len(tcs) : IsToolGroup(ps, before, j, tcs[j])
  /\ ps[Len(ps)].type = "finish"

C34_PartOrder ==
  mode = "stream" =>
    /\ position = "reading" => (~closed /\ IsOpenText(parts))
    /\ position # "reading" =>
         /\ closed
         /\ IsWholeStream(parts, deduplicateToolCalls(toolCalls).value,
                          Len(parts) - 1 - 4 * Len(deduplicateToolCalls(toolCalls).value))

(***************************************************************************)
(* C35.  In both doGenerate and doStream the finish reason is "tool-calls" *)
(* if and only if the deduplicated tool-call list returned by              *)
(* getToolCalls() is non-empty, and "stop" otherwise; the tool-call parts  *)
(* emitted correspond one-to-one and in order to that list.                *)
(***************************************************************************)
IsToolCallPart(part) == part.type = "tool-call"

\* the list as tool-call parts, in order
AsToolCallParts(tcs) ==
  [j \in 1..Len(tcs) |-> Part("tool-call", tcs[j].id, tcs[j].name, tcs[j].arguments)]

ReasonFor(tcs) == IF tcs = <<>> THEN "stop" ELSE "tool-calls"

ReasonAndCallsMatch(tcs, reason, content) ==
  /\ reason = ReasonFor(tcs)
  /\ SelectSeq(content, IsToolCallPart) = AsToolCallParts(tcs)

C35_FinishReasonFromToolCalls ==
  position = "done" =>
    IF mode = "stream"
    THEN ReasonAndCallsMatch(deduplicateToolCalls(toolCalls).value,
                             parts[Len(parts)].data, parts)
    ELSE ReasonAndCallsMatch(deduplicateToolCalls(toolCalls).value,
                             generated.finishReason, generated.content)

\* doGenerate on a body with two records of one id: one tool-call part
C35_Witness ==
  /\ mode = "generate" /\ position = "done"
  /\ Len(toolCalls) = 2
  /\ Len(SelectSeq(generated.content, IsToolCallPart)) = 1
  /\ generated.finishReason = "tool-calls"

(***************************************************************************)
(* C36.  No tool call is lost before deduplication: after any sequence of  *)
(* feed calls since construction or the last reset, the length of the      *)
(* finalized list plus one if an accumulator is open equals the number of  *)
(* tool_start payloads processed; hence after getToolCalls() the finalized *)
(* list holds exactly one record per tool_start, in arrival order.         *)
(***************************************************************************)
IsToolStart(entry) == entry.type = "tool_start"

OpenCount == IF currentToolCall = JNull THEN 0 ELSE 1

\* the record or the open call made from the j-th tool_start
MadeFrom(call, entry) ==
  /\ call.name = OrElse(Get(entry.data, KeyName), JStr(<<>>))
  /\ IF Truthy(Get(entry.data, KeyToolUseId))
     THEN call.id = Get(entry.data, KeyToolUseId)
     ELSE IsGeneratedId(call.id)

OnePerStart(starts) ==
  /\ Len(toolCalls) + OpenCount = Len(starts)
  /\ \A j \in 1..Len(toolCalls) : MadeFrom(toolCalls[j], starts[j])
  /\ currentToolCall # JNull => MadeFrom(currentToolCall, starts[Len(starts)])
  /\ (ret.op = "getToolCalls" /\ ~raised) => Len(toolCalls) = Len(starts)

C36_NoToolCallLost == OnePerStart(SelectSeq(steps, IsToolStart))

\* three starts, the third still open; then getToolCalls: three records
C36_Witness ==
  /\ Len(SelectSeq(steps, IsToolStart)) = 3
  /\ ret.op = "getToolCalls"
  /\ Len(ret.pre.toolCalls) = 2 /\ ret.pre.currentToolCall # JNull
  /\ Len(toolCalls) = 3

(***************************************************************************)
(* C37.  In every reachable state lastContent is either none (no content   *)
(* event emitted since construction or reset) or equal to the text of the  *)
(* most recently emitted content event; a suppressed payload (duplicate or *)
(* followup-tagged) never changes it, so a text is emitted again when a    *)
(* different text was emitted in between (A, B, A yields three content     *)
(* events).                                                                *)
(***************************************************************************)
IsContentEvent(event) == event.type = "content"

LastEmittedText(events) ==
  IF events = <<>> THEN JNull ELSE events[Len(events)].data

IsSuppressed(i) == steps[i].type = "content" /\ steps[i].event = NoEvent

C37_LastContentIsLastEmitted ==
  /\ lastContent = LastEmittedText(SelectSeq(emitted, IsContentEvent))
  /\ \A i \in StepIndices :
       IsSuppressed(i) => steps[i].post.lastContent = steps[i].pre.lastContent

\* A, B, A: three content events
C37_Witness ==
  /\ Len(steps) = 3
  /\ steps[1].payload = PContentA /\ steps[2].payload = PContentB
  /\ steps[3].payload = PContentA
  /\ emitted = <<Event("content", JStr(Enc("a"))), Event("content", JStr(Enc("b"))),
                 Event("content", JStr(Enc("a")))>>
  /\ lastContent = JStr(Enc("a"))

(***************************************************************************)
(* Text, usage and followup payloads between the fragments of a tool call. *)
(***************************************************************************)
PStartOpen == Enc("{\"name\":\"f\",\"toolUseId\":\"t1\",\"input\":\"{ \\\"a\\\":1\"}")

PContentStop == Enc("{\"content\":\"b\",\"stop\":true}")

BetweenPayloads ==
  {PStartOpen, PInputClose, PStop, PContentA, PContentStop, PUsage, PContext,
   PFollowupUsage}

BetweenSegments == {Frame(<<>>, payload) : payload \in BetweenPayloads}

MaxBetweenSegments == 3

InitBetween ==
  Start(SeqsUpTo(BetweenSegments, MaxBetweenSegments) \ {<<>>}, FALSE, DefaultTapes)

SpecBetween == InitBetween /\ [][NextFresh]_vars

(***************************************************************************)
(* C38.  Content, usage, context_usage and followup payloads never change  *)
(* the open accumulator or the finalized list, and tool_start, tool_input  *)
(* and tool_stop payloads never change lastContent and never emit an       *)
(* event; so text arriving between the fragments of a tool call neither    *)
(* alters that call's arguments nor is altered by it.                      *)
(***************************************************************************)
TextKinds == {"content", "usage", "context_usage", "followup"}

ToolKinds == {"tool_start", "tool_input", "tool_stop"}

LeavesCalls(entry) ==
  /\ entry.post.currentToolCall = entry.pre.currentToolCall
  /\ entry.post.toolCalls = entry.pre.toolCalls

LeavesText(entry) ==
  /\ entry.post.lastContent = entry.pre.lastContent
  /\ entry.event = NoEvent

C38_TextAndToolCallsApart ==
  \A i \in StepIndices :
    /\ steps[i].type \in TextKinds => LeavesCalls(steps[i])
    /\ steps[i].type \in ToolKinds => LeavesText(steps[i])

\* a call is opened with half of its arguments, a text arrives and is
\* emitted, the other half arrives: the arguments are the two halves
C38_Witness ==
  /\ Len(steps) = 3
  /\ steps[1].payload = PStartOpen
  /\ steps[2].payload = PContentA /\ steps[2].event = Event("content", JStr(Enc("a")))
  /\ steps[3].payload = PInputClose
  /\ currentToolCall # JNull
  /\ currentToolCall.arguments = Enc("{ \"a\":1}")
  /\ lastContent = JStr(Enc("a"))

(***************************************************************************)
(* C39.  After a successful getAccessToken(), if the contents of Kiro's    *)
(* local database do not change and the cached token is more than 600      *)
(* seconds from its recorded expiry, every further getAccessToken() call   *)
(* returns the same cached token without issuing a refresh request, also   *)
(* when the refresh response carried a rotated refreshToken.               *)
(***************************************************************************)
\* the token held when the call was made: the index of the refresh that
\* issued it
CachedAt(i) == requests[i].atCall.cached

\* call i was made with a token in the cache that was obtained for the
\* account the database still names and is more than 600 s from its expiry
FoundValidToken(i) ==
  /\ requests[i].pc # "idle"
  /\ CachedAt(i) # NoToken
  /\ refreshes[CachedAt(i)].sent = requests[i].atCall.db
  /\ requests[i].atCall.clock + TOKEN_REFRESH_THRESHOLD * 1000
       < requests[i].atCall.expires

ReturnedCached(i) ==
  /\ requests[i].attempts # <<>>
  /\ FirstToken(i) = CachedAt(i)

C39_CachedTokenReused ==
  \A i \in DOMAIN requests : FoundValidToken(i) => ReturnedCached(i)

(***************************************************************************)
(* buildKiroPayload(options, modelId, profileArn) for a request that       *)
(* offers no tools: the prompt is flattened, adjacent messages of one role *)
(* are merged, the system prompt is put in front of a message, and the     *)
(* history and the current message are built.  A message is                *)
(* [role, content]; the content of a system message is a string or a list  *)
(* of parts, that of a user or assistant message a list of parts.          *)
(***************************************************************************)
Newline == <<10>>

ContinueText == Enc("Continue")

\* .filter(p => p.type === "text").map(p => p.text).join("")
RECURSIVE JoinTextParts(_, _)
JoinTextParts(items, i) ==
  IF i > Len(items) THEN <<>>
  ELSE (IF items[i].type = "text" THEN items[i].text ELSE <<>>)
       \o JoinTextParts(items, i + 1)

PartsOf(items) == [t |-> "parts", items |-> items]

\* lines 166-172: system can be string or parts
SystemText(content) ==
  IF content.t = "str" THEN content.s ELSE JoinTextParts(content.items, 1)

FlatMessage(role, content) == [role |-> role, content |-> content]

\* systemPrompt += (systemPrompt ? "\n" : "") + msg.content
AddSystem(systemPrompt, text) ==
  systemPrompt \o (IF systemPrompt # <<>> THEN Newline ELSE <<>>) \o text

RECURSIVE flattenPrompt(_, _, _, _)
flattenPrompt(prompt, i, systemPrompt, messages) ==
  IF i > Len(prompt)
  THEN [systemPrompt |-> systemPrompt, messages |-> messages]
  ELSE IF prompt[i].role = "system"
  THEN flattenPrompt(prompt, i + 1, AddSystem(systemPrompt, SystemText(prompt[i].content)), messages)
  ELSE flattenPrompt(prompt, i + 1, systemPrompt,
                     Append(messages,
                            FlatMessage(prompt[i].role,
                                        JoinTextParts(prompt[i].content.items, 1))))

\* the content of two adjacent messages of one role
MergedContent(last, content) ==
  IF last # <<>> /\ content # <<>> THEN last \o Newline \o content
  ELSE IF content # <<>> THEN content
  ELSE last

MergedInto(merged, msg) ==
  IF msg.role = merged[Len(merged)].role
  THEN [merged EXCEPT ![Len(merged)].content = MergedContent(@, msg.content)]
  ELSE Append(merged, msg)

RECURSIVE MergeFrom(_, _, _)
MergeFrom(messages, i, merged) ==
  IF i > Len(messages) THEN merged
  ELSE MergeFrom(messages, i + 1, MergedInto(merged, messages[i]))

mergeAdjacentMessages(messages) ==
  IF Len(messages) = 0 THEN <<>>
  ELSE MergeFrom(messages, 2, <<messages[1]>>)

\* the template of lines 345 and 350
Prefixed(systemPrompt, content) == systemPrompt \o Newline \o Newline \o content

Split(historyMessages, currentMessage) ==
  [historyMessages |-> historyMessages, currentMessage |-> currentMessage]

\* lines 340-352: prepend system prompt to first user message
PrependSystemPrompt(systemPrompt, historyMessages, currentMessage) ==
  IF systemPrompt = <<>> THEN Split(historyMessages, currentMessage)
  ELSE IF Len(historyMessages) > 0 /\ historyMessages[1].role = "user"
  THEN Split([historyMessages EXCEPT ![1].content = Prefixed(systemPrompt, @)],
             currentMessage)
  ELSE IF Len(historyMessages) = 0
  THEN Split(historyMessages,
             [currentMessage EXCEPT !.content = Prefixed(systemPrompt, @)])
  ELSE Split(historyMessages, currentMessage)

\* lines 355-376: the history entries
HistoryEntry(msg) ==
  [kind |-> IF msg.role = "user" THEN "userInputMessage"
            ELSE "assistantResponseMessage",
   content |-> msg.content]

HistoryOf(historyMessages) ==
  [j \in 1..Len(historyMessages) |-> HistoryEntry(historyMessages[j])]

\* lines 379-424: the current message
Payload(history, content) ==
  [state |-> "built", history |-> history,
   currentMessage |-> IF content = <<>> THEN ContinueText ELSE content]

WithCurrent(history, currentMessage) ==
  IF currentMessage.role = "assistant"
  THEN Payload(Append(history, [kind |-> "assistantResponseMessage",
                                content |-> currentMessage.content]),
               ContinueText)
  ELSE Payload(history, currentMessage.content)

Assembled(split) == WithCurrent(HistoryOf(split.historyMessages), split.currentMessage)

\* lines 329-338
Sliced(systemPrompt, messages) ==
  IF Len(messages) = 0 THEN [state |-> "threw", error |-> "No messages to send"]
  ELSE Assembled(PrependSystemPrompt(systemPrompt,
                                     SubSeq(messages, 1, Len(messages) - 1),
                                     messages[Len(messages)]))

Flattened(flat) == Sliced(flat.systemPrompt, mergeAdjacentMessages(flat.messages))

buildKiroPayload(callOptions) ==
  Flattened(flattenPrompt(callOptions.prompt, 1, <<>>, <<>>))

\* doGenerate and doStream, lines 104 and 188 of index.ts
BuildKiroPayload ==
  /\ kiroPayload = NotBuilt
  /\ kiroPayload' = buildKiroPayload(options)
  /\ UNCHANGED <<options, parserVars, authVars, streamVars>>

NextPayload == BuildKiroPayload

(***************************************************************************)
(* Prompts of up to four messages: system texts, user and assistant        *)
(* messages, and messages without text.                                    *)
(***************************************************************************)
TextPart(text) == [type |-> "text", text |-> text]

FilePart == [type |-> "file", text |-> <<>>]

PromptMessages ==
  { [role |-> "system", content |-> JStr(Enc("S"))],
    [role |-> "system", content |-> PartsOf(<<>>)],
    [role |-> "user", content |-> PartsOf(<<TextPart(Enc("x"))>>)],
    [role |-> "user", content |-> PartsOf(<<FilePart>>)],
    [role |-> "assistant", content |-> PartsOf(<<TextPart(Enc("a"))>>)],
    [role |-> "assistant", content |-> PartsOf(<<TextPart(Enc("b")), TextPart(Enc("c"))>>)] }

MaxPromptLen == 4

InitPayload ==
  /\ IdleParser
  /\ NewGateway(0, {}, {}, {FirstAccount})
  /\ options \in {[prompt |-> q] : q \in SeqsUpTo(PromptMessages, MaxPromptLen)}
  /\ kiroPayload = NotBuilt

SpecPayload == InitPayload /\ [][NextPayload]_vars

(***************************************************************************)
(* C40.  Whenever the prompt contains non-empty system text and at least   *)
(* one non-system message, buildKiroPayload places the system text in the  *)
(* payload exactly once, prefixed to the content of the first message of   *)
(* the conversation (the first history entry, or the current message when  *)
(* there is no history), whatever the role of that first message.          *)
(***************************************************************************)
IsNotSystem(msg) == msg.role # "system"

\* the texts of the payload, in the order of the conversation
ContentsOf(built) ==
  [j \in 1..Len(built.history) |-> built.history[j].content]
    \o <<built.currentMessage>>

OccurrencesIn(text, content) ==
  Cardinality({k \in 1..(Len(content) - Len(text) + 1) :
                 SubSeq(content, k, k + Len(text) - 1) = text})

RECURSIVE Occurrences(_, _, _)
Occurrences(text, contents, i) ==
  IF i > Len(contents) THEN 0
  ELSE OccurrencesIn(text, contents[i]) + Occurrences(text, contents, i + 1)

PlacedOnceInFront(text, contents) ==
  /\ Len(contents[1]) >= Len(text) + 2
  /\ SubSeq(contents[1], 1, Len(text) + 2) = text \o Newline \o Newline
  /\ Occurrences(text, contents, 1) = 1

HasSystemAndMessage(prompt, text) ==
  /\ text # <<>>
  /\ SelectSeq(prompt, IsNotSystem) # <<>>

C40Holds(prompt, text, built) ==
  HasSystemAndMessage(prompt, text) =>
    /\ built.state = "built"
    /\ PlacedOnceInFront(text, ContentsOf(built))

C40_SystemTextInFirstMessage ==
  kiroPayload # NotBuilt =>
    C40Holds(options.prompt,
             flattenPrompt(options.prompt, 1, <<>>, <<>>).systemPrompt,
             kiroPayload)

=============================================================================
